---- MODULE Spec2Model ----
(***************************************************************************)
(* Evidence bot: the query classification and routing engine.              *)
(*                                                                         *)
(*   POST /api/query   backend/routes/query.js                             *)
(*   AIService         analyzeQuery / fallbackAnalysis / generateSummary   *)
(*   GitHubService     backend/services/githubService.js                   *)
(*   JiraService, DocumentService                                          *)
(*                                                                         *)
(* JavaScript strings are TLA+ strings, inspected one character at a time  *)
(* with SubSeq.  A JavaScript object is a function from its own keys to    *)
(* their values, so an unset key is absent from the DOMAIN.  A value whose *)
(* runtime type the code inspects (Array.isArray, typeof) is a record      *)
(* [t |-> <type>, v |-> <payload>].  A confidence is kept in tenths.       *)
(***************************************************************************)
EXTENDS Integers, Sequences, FiniteSets, TLC

VARIABLES
    genAI,          \* AIService.genAI is set (GEMINI_API_KEY present)
    jiraConfigured, \* JiraService.configured
    uploads,        \* file names of DocumentService.uploadsDir, oldest mtime first
    pc,             \* position of the POST /api/query handler
    body,           \* req.body.query of the request being handled
    analysis,       \* const analysis = await aiService.analyzeQuery(query)
    usedModel,      \* analysis is the JSON object parsed from the model text
    evidence,       \* let evidence
    calls,          \* collaborator calls of this request with their outcomes, in order
    summary,        \* let summary
    response,       \* what res.status(..).json(..) sent
    prs,            \* GitHub: the pull requests the list endpoint returns
    ghResult,       \* GitHub: value returned by the last adapter call
    records,        \* DocumentService: the record list handed to an export
    reparsed,       \* DocumentService: what parsing the exported file returned
    tasks,          \* concurrent handleDocumentQuery calls, each with its locals
    aloneDir,       \* the uploads directory before any of the concurrent calls ran
    app             \* frontend: the state of App and QueryInput and the requests in flight

auxVars == <<records, reparsed, tasks, aloneDir, app>>

vars == <<genAI, jiraConfigured, uploads, pc, body, analysis, usedModel,
          evidence, calls, summary, response, prs, ghResult, auxVars>>

reqVars == <<genAI, jiraConfigured, uploads, pc, body, analysis, usedModel,
             evidence, calls, summary, response>>

ghVars == <<prs, ghResult>>

(***************************************************************************)
(* Bounds                                                                  *)
(***************************************************************************)
MaxWords == 3       \* fragments concatenated into one query string
MaxPRs == 2         \* pull requests in the repository
MaxReviews == 3     \* reviews over all pull requests
MaxRecords == 2     \* records of an exported list
MaxTasks == 2       \* requests handled at the same time
MaxFlights == 2     \* frontend requests awaiting their response

(***************************************************************************)
(* Strings                                                                 *)
(***************************************************************************)
UpperCase == "ABCDEFGHIJKLMNOPQRSTUVWXYZ"
LowerCase == "abcdefghijklmnopqrstuvwxyz"
DigitChars == "0123456789"

CharAt(s, i) == SubSeq(s, i, i)

CharsOf(s) == { CharAt(s, i) : i \in 1..Len(s) }

IsUpper(c) == c \in CharsOf(UpperCase)
IsDigit(c) == c \in CharsOf(DigitChars)
\* regex \w
IsWord(c) == c \in CharsOf(UpperCase) \cup CharsOf(LowerCase) \cup CharsOf(DigitChars) \cup {"_"}
\* regex \s
IsSpace(c) == c = " "

toLowerChar(c) ==
    IF IsUpper(c)
    THEN CharAt(LowerCase, CHOOSE i \in 1..26 : CharAt(UpperCase, i) = c)
    ELSE c

RECURSIVE toLowerCase(_)
toLowerCase(s) ==
    IF Len(s) = 0 THEN ""
    ELSE toLowerChar(CharAt(s, 1)) \o toLowerCase(SubSeq(s, 2, Len(s)))

\* s.startsWith(sub, i - 1), positions counted from 1
StartsAt(s, sub, i) ==
    /\ i + Len(sub) - 1 <= Len(s)
    /\ SubSeq(s, i, i + Len(sub) - 1) = sub

\* s.includes(sub)
includes(s, sub) == \E i \in 1..(Len(s) + 1) : StartsAt(s, sub, i)

\* last position of the longest run of characters of class C that starts at i
\* (i - 1 when s[i] is not in C): a greedy C*
RECURSIVE RunEnd(_, _, _)
RunEnd(s, i, C) ==
    IF i <= Len(s) /\ CharAt(s, i) \in C THEN RunEnd(s, i + 1, C) ELSE i - 1

UpperClass == CharsOf(UpperCase)
DigitClass == CharsOf(DigitChars)
WordClass == CharsOf(UpperCase) \cup CharsOf(LowerCase) \cup CharsOf(DigitChars) \cup {"_"}
WordDashClass == WordClass \cup {"-"}
SpaceClass == {" "}
SpaceHashClass == {" ", "#"}
SpaceColonClass == {" ", ":"}
SpaceWordClass == SpaceClass \cup WordClass

NoMatch == "<no match>"

\* least element of a nonempty set of positions
Least(S) == CHOOSE m \in S : \A n \in S : m <= n
Greatest(S) == CHOOSE m \in S : \A n \in S : n <= m

(***************************************************************************)
(* AIService: parameter extraction (README.md, class AIService)            *)
(***************************************************************************)

\* one alternative  lit[sep]*([0-9]+)  tried at position i; the digits, or NoMatch
DigitsAlt(s, l, i, lit, sep) ==
    IF ~StartsAt(l, lit, i) THEN NoMatch
    ELSE LET b == RunEnd(s, i + Len(lit), sep)
             d == RunEnd(s, b + 1, DigitClass)
         IN  IF d >= b + 1 THEN SubSeq(s, b + 1, d) ELSE NoMatch

\* query.match(/pr[\s#]*([0-9]+)|pull request[\s#]*([0-9]+)/i): prMatch[1] || prMatch[2]
prMatch(s) ==
    LET l == toLowerCase(s)
        At(i) == IF DigitsAlt(s, l, i, "pr", SpaceHashClass) # NoMatch
                 THEN DigitsAlt(s, l, i, "pr", SpaceHashClass)
                 ELSE DigitsAlt(s, l, i, "pull request", SpaceHashClass)
        Hits == { i \in 1..Len(s) : At(i) # NoMatch }
    IN  IF Hits = {} THEN NoMatch ELSE At(Least(Hits))

\* one alternative  lit[\s:]*([\w-]+\/[\w-]+)  tried at position i
RepoAlt(s, l, i, lit) ==
    IF ~StartsAt(l, lit, i) THEN NoMatch
    ELSE LET b == RunEnd(s, i + Len(lit), SpaceColonClass)
             c == RunEnd(s, b + 1, WordDashClass)
             e == RunEnd(s, c + 2, WordDashClass)
         IN  IF c >= b + 1 /\ StartsAt(s, "/", c + 1) /\ e >= c + 2
             THEN SubSeq(s, b + 1, e) ELSE NoMatch

\* query.match(/repo[\s:]*([\w-]+\/[\w-]+)|repository[\s:]*([\w-]+\/[\w-]+)/i)
repoMatch(s) ==
    LET l == toLowerCase(s)
        At(i) == IF RepoAlt(s, l, i, "repo") # NoMatch
                 THEN RepoAlt(s, l, i, "repo")
                 ELSE RepoAlt(s, l, i, "repository")
        Hits == { i \in 1..Len(s) : At(i) # NoMatch }
    IN  IF Hits = {} THEN NoMatch ELSE At(Least(Hits))

\* /([A-Z]+)-([0-9]+)/ tried at position i: the whole match, or NoMatch
IssueAt(s, i) ==
    LET j == RunEnd(s, i, UpperClass)
        d == RunEnd(s, j + 2, DigitClass)
    IN  IF j >= i /\ StartsAt(s, "-", j + 1) /\ d >= j + 2
        THEN SubSeq(s, i, d) ELSE NoMatch

\* query.match(/([A-Z]+)-([0-9]+)/): issueMatch[0].  No i flag: upper case only.
issueMatch(s) ==
    LET Hits == { i \in 1..Len(s) : IssueAt(s, i) # NoMatch }
    IN  IF Hits = {} THEN NoMatch ELSE IssueAt(s, Least(Hits))

\* user[\s:]*([\w]+) tried at position i
UserAlt1(s, l, i) ==
    IF ~StartsAt(l, "user", i) THEN NoMatch
    ELSE LET b == RunEnd(s, i + 4, SpaceColonClass)
             c == RunEnd(s, b + 1, WordClass)
         IN  IF c >= b + 1 THEN SubSeq(s, b + 1, c) ELSE NoMatch

\* access[\s\w]*to[\s]*([\w]+) tried at position i: the greedy [\s\w]* gives
\* back characters until a "to" followed by [\s]*[\w]+ is found, so the last
\* such "to" of the run is the one matched
UserAlt2(s, l, i) ==
    IF ~StartsAt(l, "access", i) THEN NoMatch
    ELSE LET a == i + 6
             r == RunEnd(s, a, SpaceWordClass)
             Word(p) == LET q == RunEnd(s, p + 2, SpaceClass)
                        IN  SubSeq(s, q + 1, RunEnd(s, q + 1, WordClass))
             Tos == { p \in a..(r + 1) : StartsAt(l, "to", p) /\ Word(p) # "" }
         IN  IF Tos = {} THEN NoMatch ELSE Word(Greatest(Tos))

\* query.match(/user[\s:]*([\w]+)|access[\s\w]*to[\s]*([\w]+)/i): userMatch[1] || userMatch[2]
userMatch(s) ==
    LET l == toLowerCase(s)
        At(i) == IF UserAlt1(s, l, i) # NoMatch THEN UserAlt1(s, l, i)
                 ELSE UserAlt2(s, l, i)
        Hits == { i \in 1..Len(s) : At(i) # NoMatch }
    IN  IF Hits = {} THEN NoMatch ELSE At(Least(Hits))

\* const params = {}
EmptyObject == [k \in {} |-> ""]

\* params.key = value when the match succeeded
SetIf(cond, key, value) == IF cond THEN key :> value ELSE EmptyObject

extractGitHubParams(query) ==
    SetIf(prMatch(query) # NoMatch, "prNumber", prMatch(query))
    @@ SetIf(repoMatch(query) # NoMatch, "repository", repoMatch(query))

extractJiraParams(query) ==
    SetIf(issueMatch(query) # NoMatch, "issueKey", issueMatch(query))
    @@ SetIf(userMatch(query) # NoMatch, "user", userMatch(query))

\* the later assignment to the same key wins
extractDocumentParams(query) ==
    LET isExcel == includes(query, "excel") \/ includes(query, "xlsx")
        isCsv == includes(query, "csv")
    IN  SetIf(isExcel \/ isCsv, "fileType", IF isExcel THEN "excel" ELSE "csv")
        @@ SetIf(includes(query, "export") /\ (isExcel \/ isCsv), "exportFormat",
                 IF isExcel THEN "excel" ELSE "csv")

(***************************************************************************)
(* AIService.fallbackAnalysis                                              *)
(***************************************************************************)
GitHubTerms == {"pr", "pull request", "github", "merge"}
JiraTerms == {"jira", "ticket", "issue", "access"}
DocumentTerms == {"csv", "excel", "file", "document"}

IncludesAny(query, terms) == \E t \in terms : includes(query, t)

Intent(qt, text, params, src, act, conf) ==
    [queryType |-> qt, intent |-> text, parameters |-> params,
     source |-> src, action |-> act, confidence |-> conf]

\* the classifier with the issue-tracker family tested first
\* the classifier passing the user's words on as the intent text
fallbackAnalysisIntentFromQuery(userQuery) ==
    LET query == toLowerCase(userQuery)
    IN  IF IncludesAny(query, GitHubTerms)
        THEN Intent("github", userQuery,
                    extractGitHubParams(query), "github", "fetch_github_data", 7)
        ELSE IF IncludesAny(query, JiraTerms)
        THEN Intent("jira", "Query JIRA ticket information",
                    extractJiraParams(query), "jira", "fetch_jira_data", 7)
        ELSE IF IncludesAny(query, DocumentTerms)
        THEN Intent("document", "Analyze document data",
                    extractDocumentParams(query), "document", "analyze_document", 8)
        ELSE Intent("general", "General query requiring multiple sources",
                    EmptyObject, "multiple", "multi_source_search", 5)

fallbackAnalysisJiraFirst(userQuery) ==
    LET query == toLowerCase(userQuery)
    IN  IF IncludesAny(query, JiraTerms)
        THEN Intent("jira", "Query JIRA ticket information",
                    extractJiraParams(query), "jira", "fetch_jira_data", 7)
        ELSE IF IncludesAny(query, GitHubTerms)
        THEN Intent("github", "Query GitHub repository information",
                    extractGitHubParams(query), "github", "fetch_github_data", 7)
        ELSE IF IncludesAny(query, DocumentTerms)
        THEN Intent("document", "Analyze document data",
                    extractDocumentParams(query), "document", "analyze_document", 8)
        ELSE Intent("general", "General query requiring multiple sources",
                    EmptyObject, "multiple", "multi_source_search", 5)

fallbackAnalysis(userQuery) ==
    LET query == toLowerCase(userQuery)
    IN  IF IncludesAny(query, GitHubTerms)
        THEN Intent("github", "Query GitHub repository information",
                    extractGitHubParams(query), "github", "fetch_github_data", 7)
        ELSE IF IncludesAny(query, JiraTerms)
        THEN Intent("jira", "Query JIRA ticket information",
                    extractJiraParams(query), "jira", "fetch_jira_data", 7)
        ELSE IF IncludesAny(query, DocumentTerms)
        THEN Intent("document", "Analyze document data",
                    extractDocumentParams(query), "document", "analyze_document", 8)
        ELSE Intent("general", "General query requiring multiple sources",
                    EmptyObject, "multiple", "multi_source_search", 5)

(***************************************************************************)
(* JavaScript values                                                       *)
(***************************************************************************)
Undefined == [t |-> "undefined"]
Null == [t |-> "null"]
Num(n) == [t |-> "number", n |-> n]
Bool(b) == [t |-> "boolean", b |-> b]
Str(s) == [t |-> "string", s |-> s]
Arr(items) == [t |-> "array", items |-> items]
Obj(o) == [t |-> "object", o |-> o]

\* !!v
Truthy(v) ==
    CASE v.t = "undefined" -> FALSE
      [] v.t = "null" -> FALSE
      [] v.t = "number" -> v.n # 0
      [] v.t = "boolean" -> v.b
      [] v.t = "string" -> v.s # ""
      [] OTHER -> TRUE

\* typeof v
TypeOf(v) ==
    CASE v.t = "null" -> "object"
      [] v.t = "array" -> "object"
      [] OTHER -> v.t

\* key in obj, for an object held as a function
Has(o, key) == key \in DOMAIN o

\* obj.key is set to a non-empty string (the truthiness test of a string property)
TruthyStr(o, key) == Has(o, key) /\ o[key] # ""

(***************************************************************************)
(* AIService.analyzeQuery: the model text and JSON.parse                   *)
(*                                                                         *)
(* The text of a model response is a sequence of lexemes: "{", "}", "txt"  *)
(* (prose holding no brace), a member "key:value", and "parameters:",      *)
(* the key of the nested object that follows it.  Commas and quotes are    *)
(* part of the lexemes.                                                    *)
(***************************************************************************)
Positions(text, tok) == { i \in 1..Len(text) : text[i] = tok }

\* text.match(/\{[\s\S]*\}/): the span from the first "{" to the last "}" after
\* it (the star is greedy); <<>> stands for a null match
jsonMatch(text) ==
    LET opens == Positions(text, "{")
        closes == Positions(text, "}")
    IN  IF opens = {} \/ closes = {} \/ Least(opens) > Greatest(closes) THEN <<>>
        ELSE SubSeq(text, Least(opens), Greatest(closes))

SyntaxError == [SyntaxError |-> "Unexpected token in JSON"]

IsMember(tok) ==
    /\ tok \notin {"{", "}", "txt", "parameters:"}
    /\ \E k \in 2..(Len(tok) - 1) : CharAt(tok, k) = ":"

MemberKey(tok) == SubSeq(tok, 1, Least({ k \in 1..Len(tok) : CharAt(tok, k) = ":" }) - 1)

MemberText(tok) == SubSeq(tok, Least({ k \in 1..Len(tok) : CharAt(tok, k) = ":" }) + 1, Len(tok))

\* a confidence is a JSON number, given in tenths; every other value is a string
MemberValue(tok) ==
    IF MemberKey(tok) = "confidence"
    THEN CHOOSE d \in 0..9 : CharAt(DigitChars, d + 1) = MemberText(tok)
    ELSE MemberText(tok)

\* the members toks[i..n] of an object, added to acc; a later key replaces an
\* earlier one
RECURSIVE ParseMembers(_, _, _, _, _)
ParseMembers(toks, i, n, acc, nested) ==
    IF i > n THEN acc
    ELSE IF IsMember(toks[i])
    THEN ParseMembers(toks, i + 1, n,
                      (MemberKey(toks[i]) :> MemberValue(toks[i])) @@ acc, nested)
    ELSE IF toks[i] = "parameters:" /\ ~nested /\ i + 2 <= n /\ toks[i + 1] = "{"
            /\ \E j \in (i + 2)..n : toks[j] = "}"
    THEN LET j == Least({ k \in (i + 2)..n : toks[k] = "}" })
             inner == ParseMembers(toks, i + 2, j - 1, EmptyObject, TRUE)
         IN  IF inner = SyntaxError THEN SyntaxError
             ELSE ParseMembers(toks, j + 1, n, ("parameters" :> inner) @@ acc, nested)
    ELSE SyntaxError

\* JSON.parse(jsonMatch[0]); SyntaxError stands for the exception thrown
JSONparse(span) ==
    IF Len(span) < 2 \/ span[1] # "{" \/ span[Len(span)] # "}" THEN SyntaxError
    ELSE ParseMembers(span, 2, Len(span) - 1, EmptyObject, FALSE)

\* this.model.generateContent(prompt): it rejects, or resolves to a text
ModelThrows == [kind |-> "throw", text |-> <<>>]
ModelText(text) == [kind |-> "text", text |-> text]
\* no model call is made (this.genAI is null)
NoModel == [kind |-> "none", text |-> <<>>]

\* analyzeQuery whose catch does not cover JSON.parse
analyzeQueryParseUncaught(userQuery, configured, outcome) ==
    IF ~configured THEN fallbackAnalysis(userQuery)
    ELSE IF outcome.kind # "text" THEN fallbackAnalysis(userQuery)
    ELSE IF jsonMatch(outcome.text) = <<>> THEN fallbackAnalysis(userQuery)
    ELSE JSONparse(jsonMatch(outcome.text))

\* the value analyzeQuery resolves to; it never rejects, fallbackAnalysis being total
analyzeQuery(userQuery, configured, outcome) ==
    IF ~configured THEN fallbackAnalysis(userQuery)
    ELSE IF outcome.kind # "text" THEN fallbackAnalysis(userQuery)
    ELSE IF jsonMatch(outcome.text) = <<>> THEN fallbackAnalysis(userQuery)
    ELSE IF JSONparse(jsonMatch(outcome.text)) = SyntaxError THEN fallbackAnalysis(userQuery)
    ELSE JSONparse(jsonMatch(outcome.text))

\* analyzeQuery returned the parsed model object (line 267), not the fallback
ParsedFromModel(configured, outcome) ==
    /\ configured
    /\ outcome.kind = "text"
    /\ jsonMatch(outcome.text) # <<>>
    /\ JSONparse(jsonMatch(outcome.text)) # SyntaxError

(***************************************************************************)
(* Results of adapter calls                                                *)
(***************************************************************************)
\* the call resolved to a value / rejected with new Error(msg)
Returned(value) == [threw |-> FALSE, msg |-> "", data |-> value]
Threw(msg) == [threw |-> TRUE, msg |-> msg, data |-> Undefined]

(***************************************************************************)
(* GitHubService (backend/services/githubService.js)                       *)
(*                                                                         *)
(* A pull request of the API is [number, state, merged, created_min,       *)
(* merged_min, reviews]: created_min and merged_min are the minutes        *)
(* between created_at / merged_at and the call (merged_min = -1 for a null *)
(* merged_at); reviews is what the reviews endpoint lists, each review     *)
(* [user, state].  net is what the network does to one adapter call:       *)
(* net.listError is the message of the failing list or detail request      *)
(* ("" when it succeeds) and net.reviewErrors the numbers of the pull      *)
(* requests whose reviews request fails.                                   *)
(***************************************************************************)
DefaultLimit == 50
MinutesPerHour == 60
DayMinutes == 1440
WeekMinutes == 10080

ReviewStates == {"APPROVED", "CHANGES_REQUESTED", "COMMENTED"}

Min(a, b) == IF a <= b THEN a ELSE b

\* reviews.filter(r => r.state === st).length
CountState(reviews, st) == Cardinality({ i \in 1..Len(reviews) : reviews[i].state = st })

\* reviews.map(review => ({id, user: review.user.login, state, submitted_at, body}));
\* the endpoint lists the reviews in chronological order, and submitted_at is
\* here the rank of the review in that order
MapReviews(reviews) ==
    [i \in 1..Len(reviews) |->
        [user |-> reviews[i].user, state |-> reviews[i].state, submitted_at |-> i]]

\* the record with every review counted as an approval
PullRequestRecordCountsAll(pr) ==
    [number |-> pr.number, state |-> pr.state, merged |-> pr.merged,
     created_min |-> pr.created_min, merged_min |-> pr.merged_min,
     reviews |-> MapReviews(pr.reviews),
     approvals |-> Len(pr.reviews),
     request_changes |-> CountState(pr.reviews, "CHANGES_REQUESTED")]

\* the record getPullRequests builds when the reviews request succeeds (lines 161-183)
PullRequestRecord(pr) ==
    [number |-> pr.number, state |-> pr.state, merged |-> pr.merged,
     created_min |-> pr.created_min, merged_min |-> pr.merged_min,
     reviews |-> MapReviews(pr.reviews),
     approvals |-> CountState(pr.reviews, "APPROVED"),
     request_changes |-> CountState(pr.reviews, "CHANGES_REQUESTED")]

\* the record built in the catch of a failed reviews request (lines 186-202)
DegradedRecord(pr) ==
    [number |-> pr.number, state |-> pr.state, merged |-> pr.merged,
     created_min |-> pr.created_min, merged_min |-> pr.merged_min,
     reviews |-> <<>>, approvals |-> 0, request_changes |-> 0]

\* GET /repos/:owner/:repo/pulls?state=..&per_page=Math.min(limit, 100)
ListPulls(repo, state, limit) ==
    LET Wanted(pr) == state = "all" \/ pr.state = state
        listed == SelectSeq(repo, Wanted)
    IN  SubSeq(listed, 1, Min(Len(listed), Min(limit, 100)))

\* Promise.all over fetches that are not caught one by one: one failing reviews
\* request rejects the whole call
getPullRequestsFailFast(repo, state, limit, net) ==
    IF net.listError # ""
    THEN Threw("Failed to fetch pull requests: " \o net.listError)
    ELSE LET listed == ListPulls(repo, state, limit)
             sliced == SubSeq(listed, 1, Min(Len(listed), limit))
         IN  IF \E i \in 1..Len(sliced) : sliced[i].number \in net.reviewErrors
             THEN Threw("Failed to fetch pull requests: Request failed")
             ELSE Returned(Arr([i \in 1..Len(sliced) |-> PullRequestRecord(sliced[i])]))

\* getPullRequests (lines 136-212): the list request, then the reviews request
\* of every listed pull request, each inside its own try
getPullRequests(repo, state, limit, net) ==
    IF net.listError # ""
    THEN Threw("Failed to fetch pull requests: " \o net.listError)
    ELSE LET listed == ListPulls(repo, state, limit)
             sliced == SubSeq(listed, 1, Min(Len(listed), limit))
         IN  Returned(Arr([i \in 1..Len(sliced) |->
                 IF sliced[i].number \in net.reviewErrors
                 THEN DegradedRecord(sliced[i])
                 ELSE PullRequestRecord(sliced[i])]))

\* Promise.all of the detail request and the reviews request (lines 336-383);
\* prNumber is the path segment of the two URLs
getPullRequest(repo, prNumber, net) ==
    LET found == SelectSeq(repo, LAMBDA pr : ToString(pr.number) = prNumber)
    IN  IF net.listError # "" THEN Threw("Failed to fetch pull request: " \o net.listError)
        ELSE IF Len(found) = 0 THEN Threw("Failed to fetch pull request: Not Found")
        ELSE IF found[1].number \in net.reviewErrors
        THEN Threw("Failed to fetch pull request: Request failed")
        ELSE Returned(Obj(PullRequestRecord(found[1])))

\* the filter without its test of the approvals
getPRsMergedWithoutApprovalAnyMerged(repo, net) ==
    LET got == getPullRequests(repo, "closed", DefaultLimit, net)
        Unapproved(pr) == pr.merged
    IN  IF got.threw
        THEN Threw("Failed to get PRs merged without approval: " \o got.msg)
        ELSE LET kept == SelectSeq(got.data.items, Unapproved)
             IN  Returned(Obj([count |-> Len(kept),
                               prs |-> [i \in 1..Len(kept) |->
                                   [pr_id |-> kept[i].number, reviews |-> kept[i].reviews,
                                    merged_min |-> kept[i].merged_min]]]))

getPRsMergedWithoutApproval(repo, net) ==
    LET got == getPullRequests(repo, "closed", DefaultLimit, net)
        Unapproved(pr) == pr.merged /\ pr.approvals = 0
    IN  IF got.threw
        THEN Threw("Failed to get PRs merged without approval: " \o got.msg)
        ELSE LET kept == SelectSeq(got.data.items, Unapproved)
             IN  Returned(Obj([count |-> Len(kept),
                               prs |-> [i \in 1..Len(kept) |->
                                   [pr_id |-> kept[i].number, reviews |-> kept[i].reviews,
                                    merged_min |-> kept[i].merged_min]]]))

\* the projection taken from the user's first review of the record
getPRsReviewedByUserFirstReview(reviewer, repo, net) ==
    LET got == getPullRequests(repo, "all", DefaultLimit, net)
        By(review) == toLowerCase(review.user) = toLowerCase(reviewer)
        Reviewed(pr) == \E i \in 1..Len(pr.reviews) : By(pr.reviews[i])
        Latest(pr) == LET userReviews == SelectSeq(pr.reviews, By)
                      IN  userReviews[1]
    IN  IF got.threw
        THEN Threw("Failed to get PRs reviewed by " \o reviewer \o ": " \o got.msg)
        ELSE LET kept == SelectSeq(got.data.items, Reviewed)
             IN  Returned(Arr([i \in 1..Len(kept) |->
                     [pr_id |-> kept[i].number, reviewer |-> reviewer,
                      decision |-> Latest(kept[i]).state,
                      date |-> Latest(kept[i]).submitted_at]]))

getPRsReviewedByUser(reviewer, repo, net) ==
    LET got == getPullRequests(repo, "all", DefaultLimit, net)
        By(review) == toLowerCase(review.user) = toLowerCase(reviewer)
        Reviewed(pr) == \E i \in 1..Len(pr.reviews) : By(pr.reviews[i])
        Latest(pr) == LET userReviews == SelectSeq(pr.reviews, By)
                      IN  userReviews[Len(userReviews)]
    IN  IF got.threw
        THEN Threw("Failed to get PRs reviewed by " \o reviewer \o ": " \o got.msg)
        ELSE LET kept == SelectSeq(got.data.items, Reviewed)
             IN  Returned(Arr([i \in 1..Len(kept) |->
                     [pr_id |-> kept[i].number, reviewer |-> reviewer,
                      decision |-> Latest(kept[i]).state,
                      date |-> Latest(kept[i]).submitted_at]]))

\* the filter with createdAt <= twentyFourHoursAgo
getPRsWaitingForReviewInclusive(repo, net) ==
    LET got == getPullRequests(repo, "open", DefaultLimit, net)
        Waiting(pr) == pr.created_min >= DayMinutes /\ Len(pr.reviews) = 0
    IN  IF got.threw
        THEN Threw("Failed to get PRs waiting for review: " \o got.msg)
        ELSE LET kept == SelectSeq(got.data.items, Waiting)
             IN  Returned(Arr([i \in 1..Len(kept) |->
                     [pr_id |-> kept[i].number,
                      review_requested |-> IF Len(kept[i].reviews) = 0 THEN "No" ELSE "Yes",
                      waiting_time |-> ToString(kept[i].created_min \div MinutesPerHour) \o " hours"]]))

getPRsWaitingForReview(repo, net) ==
    LET got == getPullRequests(repo, "open", DefaultLimit, net)
        Waiting(pr) == pr.created_min > DayMinutes /\ Len(pr.reviews) = 0
    IN  IF got.threw
        THEN Threw("Failed to get PRs waiting for review: " \o got.msg)
        ELSE LET kept == SelectSeq(got.data.items, Waiting)
             IN  Returned(Arr([i \in 1..Len(kept) |->
                     [pr_id |-> kept[i].number,
                      review_requested |-> IF Len(kept[i].reviews) = 0 THEN "No" ELSE "Yes",
                      waiting_time |-> ToString(kept[i].created_min \div MinutesPerHour) \o " hours"]]))

getPRsMergedLastWeek(repo, net) ==
    LET got == getPullRequests(repo, "closed", DefaultLimit, net)
        Recent(pr) == pr.merged /\ pr.merged_min >= 0 /\ pr.merged_min <= WeekMinutes
        Approvers(pr) == LET ok == SelectSeq(pr.reviews, LAMBDA r : r.state = "APPROVED")
                         IN  IF Len(ok) > 0 THEN [i \in 1..Len(ok) |-> ok[i].user]
                             ELSE <<"No approvers">>
    IN  IF got.threw
        THEN Threw("Failed to get PRs merged in last week: " \o got.msg)
        ELSE LET kept == SelectSeq(got.data.items, Recent)
             IN  Returned(Arr([i \in 1..Len(kept) |->
                     [pr_id |-> kept[i].number, merged_min |-> kept[i].merged_min,
                      approvers |-> Approvers(kept[i])]]))

\* GET /repos/shambhavi-123/sprinto-bot, returned as a one-element array
getRepositories(net) ==
    IF net.listError # "" THEN Threw("Failed to fetch repositories: " \o net.listError)
    ELSE Returned(Arr(<<[name |-> "sprinto-bot", full_name |-> "shambhavi-123/sprinto-bot"]>>))

(***************************************************************************)
(* JiraService (README.md, class JiraService)                              *)
(***************************************************************************)
AccessMaxResults == 20
DefaultMaxResults == 50
GeneralMaxResults == 10

\* what the search endpoint answers: the tracker's issues are not inspected by
\* the engine, only passed through
JiraIssues == <<[key |-> "ABC-123", status |-> "To Do"]>>

searchIssues(jql, maxResults, configured, netError) ==
    IF ~configured THEN Threw("JIRA not configured")
    ELSE IF netError # "" THEN Threw("Failed to search JIRA issues: " \o netError)
    ELSE Returned(Obj([total |-> Len(JiraIssues),
                       issues |-> SubSeq(JiraIssues, 1, Min(Len(JiraIssues), maxResults))]))

getIssue(issueKey, configured, netError) ==
    IF ~configured THEN Threw("JIRA not configured")
    ELSE IF netError # "" THEN Threw("Failed to get JIRA issue: " \o netError)
    ELSE Returned(Obj([key |-> issueKey, status |-> "To Do", changelog |-> <<>>]))

AccessJQL(username) ==
    "text ~ \"" \o username \o "\" OR text ~ \"access\" AND text ~ \"" \o username
        \o "\" ORDER BY updated DESC"

searchAccessIssues(username, configured, netError) ==
    searchIssues(AccessJQL(username), AccessMaxResults, configured, netError)

RECURSIVE JoinAnd(_)
JoinAnd(conditions) ==
    IF Len(conditions) = 1 THEN conditions[1]
    ELSE conditions[1] \o " AND " \o JoinAnd(Tail(conditions))

generateJQL(params) ==
    LET Cond(key, text) == IF TruthyStr(params, key) THEN <<text>> ELSE <<>>
        conditions ==
            Cond("project", "project = \"" \o params["project"] \o "\"")
            \o Cond("status", "status = \"" \o params["status"] \o "\"")
            \o Cond("assignee", "assignee = \"" \o params["assignee"] \o "\"")
            \o Cond("user", "(text ~ \"" \o params["user"] \o "\" OR assignee = \""
                            \o params["user"] \o "\" OR reporter = \"" \o params["user"] \o "\")")
            \o Cond("text", "text ~ \"" \o params["text"] \o "\"")
    IN  IF Len(conditions) = 0 THEN "ORDER BY updated DESC"
        ELSE JoinAnd(conditions) \o " ORDER BY updated DESC"

(***************************************************************************)
(* DocumentService (unnamed/part_000)                                      *)
(***************************************************************************)
\* getAvailableFiles: the directory entries not starting with ".", each with its
\* mtime, which is here its rank in the directory by modification time
getAvailableFiles(dir, fsError) ==
    IF fsError # "" THEN Threw("Failed to list files: " \o fsError)
    ELSE LET ranks == { i \in 1..Len(dir) : ~StartsAt(dir[i], ".", 1) }
             RECURSIVE Listing(_)
             Listing(i) ==
                 IF i > Len(dir) THEN <<>>
                 ELSE (IF i \in ranks
                       THEN <<[filename |-> dir[i], lastModified |-> i]>> ELSE <<>>)
                      \o Listing(i + 1)
         IN  Returned(Arr(Listing(1)))

\* path.extname(filename).toLowerCase(): from the last "." on, "" without one
extname(filename) ==
    LET dots == { i \in 2..Len(filename) : CharAt(filename, i) = "." }
    IN  IF dots = {} THEN ""
        ELSE toLowerCase(SubSeq(filename, Greatest(dots), Len(filename)))

\* the rows a stored file parses to: the engine passes them through
ParsedRows == <<[asset |-> "laptop", count |-> "3"]>>

analyzeDocument(filename, dir, parseError) ==
    IF \A i \in 1..Len(dir) : dir[i] # filename
    THEN Threw("File not found: " \o filename)
    ELSE IF extname(filename) \notin {".csv", ".xlsx", ".xls"}
    THEN Threw("Document analysis failed: Unsupported file type: " \o extname(filename))
    ELSE IF parseError # ""
    THEN Threw("Document analysis failed: " \o parseError)
    ELSE Returned(Obj([headers |-> <<"asset", "count">>, data |-> ParsedRows,
                       rowCount |-> Len(ParsedRows),
                       type |-> IF extname(filename) = ".csv" THEN "csv" ELSE "excel",
                       filename |-> filename]))

ExportName(filename, format) ==
    "export_" \o filename \o (IF format = "excel" THEN ".xlsx" ELSE ".csv")

\* exportToExcel / exportToCSV
exportTo(format, filename, writeError) ==
    IF writeError # ""
    THEN Threw((IF format = "excel" THEN "Excel" ELSE "CSV") \o " export failed: " \o writeError)
    ELSE Returned(Obj([filename |-> ExportName(filename, format)]))

\* an export written to a directory of its own
WriteFileElsewhere(dir, name) == dir

\* the directory after fs.writeFileSync(path): the file is the newest
WriteFile(dir, name) == SelectSeq(dir, LAMBDA f : f # name) \o <<name>>

\* Object.keys of the records of an export, in insertion order
Columns == <<"name", "count">>

RECURSIVE JoinWith(_, _)
JoinWith(parts, sep) ==
    IF Len(parts) = 0 THEN ""
    ELSE IF Len(parts) = 1 THEN parts[1]
    ELSE parts[1] \o sep \o JoinWith(Tail(parts), sep)

\* value.replace(/"/g, '""')
RECURSIVE DoubleQuotes(_)
DoubleQuotes(str) ==
    IF str = "" THEN ""
    ELSE (IF CharAt(str, 1) = "\"" THEN "\"\"" ELSE CharAt(str, 1))
         \o DoubleQuotes(SubSeq(str, 2, Len(str)))

\* one cell of convertToCSV (lines 266-272); Array.prototype.join writes a
\* number in decimal
CsvCell(value) ==
    IF value.t = "string" /\ (includes(value.s, ",") \/ includes(value.s, "\""))
    THEN "\"" \o DoubleQuotes(value.s) \o "\""
    ELSE IF ~Truthy(value) THEN ""
    ELSE IF value.t = "number" THEN ToString(value.n)
    ELSE value.s

convertToCSV(data) ==
    IF Len(data) = 0 THEN ""
    ELSE LET headers == Columns
             Row(row) == JoinWith([k \in 1..Len(headers) |-> CsvCell(row[headers[k]])], ",")
         IN  JoinWith(<<JoinWith(headers, ",")>> \o [i \in 1..Len(data) |-> Row(data[i])],
                      "\n")

\* the csv() transform of parseCSV: a line feed outside quotes ends a row, a
\* comma outside quotes ends a cell, a doubled quote inside quotes is a quote
RECURSIVE CsvRows(_, _, _, _, _, _)
CsvRows(str, i, quoted, cell, cells, rows) ==
    IF i > Len(str) THEN Append(rows, Append(cells, cell))
    ELSE LET c == CharAt(str, i)
         IN  IF c = "\""
             THEN (IF quoted /\ i < Len(str) /\ CharAt(str, i + 1) = "\""
                   THEN CsvRows(str, i + 2, quoted, cell \o "\"", cells, rows)
                   ELSE CsvRows(str, i + 1, ~quoted, cell, cells, rows))
             ELSE IF ~quoted /\ c = ","
             THEN CsvRows(str, i + 1, quoted, "", Append(cells, cell), rows)
             ELSE IF ~quoted /\ c = "\n"
             THEN CsvRows(str, i + 1, quoted, "", <<>>, Append(rows, Append(cells, cell)))
             ELSE CsvRows(str, i + 1, quoted, cell \o c, cells, rows)

\* parseCSV (lines 24-53) of a file with the given content: the first row is
\* the 'headers' event, every further row a 'data' event
parseCSV(content) ==
    IF content = ""
    THEN [headers |-> <<>>, data |-> <<>>, rowCount |-> 0, type |-> "csv"]
    ELSE LET rows == CsvRows(content, 1, FALSE, "", <<>>, <<>>)
             headers == rows[1]
             Data(cells) == [h \in { headers[k] : k \in 1..Min(Len(headers), Len(cells)) } |->
                                cells[Least({ k \in 1..Len(headers) : headers[k] = h })]]
             results == [i \in 1..(Len(rows) - 1) |-> Data(rows[i + 1])]
         IN  [headers |-> headers, data |-> results, rowCount |-> Len(results),
              type |-> "csv"]

(***************************************************************************)
(* AIService.generateSummary / fallbackSummary                             *)
(***************************************************************************)
\* every key the engine's objects carry, in an order that agrees with the
\* insertion order of each of them (Object.keys lists insertion order)
KeyOrder == <<"error", "message", "suggestion", "count", "prs", "number", "state",
              "merged", "created_min", "merged_min", "reviews", "approvals",
              "request_changes", "total", "issues", "key", "status", "changelog",
              "headers", "data", "rowCount", "type", "filename", "export",
              "queryType", "parameters", "analysis", "github", "jira", "documents">>

RECURSIVE JoinKeys(_, _)
JoinKeys(o, i) ==
    IF i > Len(KeyOrder) THEN ""
    ELSE IF KeyOrder[i] \notin DOMAIN o THEN JoinKeys(o, i + 1)
    ELSE LET rest == JoinKeys(o, i + 1)
         IN  IF rest = "" THEN KeyOrder[i] ELSE KeyOrder[i] \o ", " \o rest

fallbackSummary(data, queryIntent) ==
    IF data.t = "array"
    THEN "Found " \o ToString(Len(data.items)) \o " items matching your query: \""
         \o queryIntent \o "\". Data has been retrieved and is ready for export."
    ELSE IF TypeOf(data) = "object"
    THEN "Retrieved evidence with " \o ToString(Cardinality(DOMAIN data.o))
         \o " data points: " \o JoinKeys(data.o, 1) \o ". Query: \"" \o queryIntent \o "\""
    ELSE "Evidence retrieved for query: \"" \o queryIntent
         \o "\". Data is available for review."

ModelSummary == "Audit summary written by the model"

generateSummary(data, queryIntent, configured, outcome) ==
    IF ~configured THEN fallbackSummary(data, queryIntent)
    ELSE IF outcome.kind # "text" THEN fallbackSummary(data, queryIntent)
    ELSE ModelSummary

(***************************************************************************)
(* The query router (backend/routes/query.js)                              *)
(***************************************************************************)
TypeErrorMessage(prop) == "Cannot read properties of undefined (reading '" \o prop \o "')"

\* analysis.parameters
ParamsOf(a) == IF Has(a, "parameters") THEN a.parameters ELSE Undefined

\* `${analysis.intent}`
IntentText(a) == IF Has(a, "intent") THEN a.intent ELSE "undefined"

DefaultRepository == "shambhavi-123/sprinto-bot"

\* const [owner, repo] = params.repository.split('/'), joined again in the URL
OwnerRepo(repository) ==
    LET slashes == { i \in 1..Len(repository) : CharAt(repository, i) = "/" }
    IN  IF slashes = {} THEN repository \o "/undefined"
        ELSE LET first == Least(slashes)
                 later == { i \in slashes : i > first }
             IN  SubSeq(repository, 1,
                        IF later = {} THEN Len(repository) ELSE Least(later) - 1)

Call(op, args) == [op |-> op, args |-> args]

\* the adapter call handleGitHubQuery selects inside its try (lines 79-112);
\* op "TypeError" is a property read on the undefined params
GitHubCall(a) ==
    LET params == ParamsOf(a)
        query == toLowerCase(a.intent)
        hasParams == Has(a, "parameters")
    IN  IF includes(query, "merged without approval") \/ includes(query, "no approval")
        THEN Call("getPRsMergedWithoutApproval", <<>>)
        ELSE IF includes(query, "reviewed by") /\ ~hasParams
        THEN Call("TypeError", <<"user">>)
        ELSE IF includes(query, "reviewed by") /\ TruthyStr(params, "user")
        THEN Call("getPRsReviewedByUser", <<params["user"]>>)
        ELSE IF includes(query, "waiting for review") \/ includes(query, "24 hours")
        THEN Call("getPRsWaitingForReview", <<>>)
        ELSE IF includes(query, "last 7 days") \/ includes(query, "last week")
        THEN Call("getPRsMergedLastWeek", <<>>)
        ELSE IF ~hasParams
        THEN Call("TypeError", <<"prNumber">>)
        ELSE IF TruthyStr(params, "prNumber") /\ TruthyStr(params, "repository")
        THEN Call("getPullRequest", <<OwnerRepo(params["repository"]), params["prNumber"]>>)
        ELSE IF TruthyStr(params, "prNumber")
        THEN Call("getPullRequest", <<DefaultRepository, params["prNumber"]>>)
        ELSE IF includes(query, "pull request")
                \/ (includes(query, "last") /\ includes(query, "pull"))
        THEN Call("getPullRequests", <<>>)
        ELSE Call("getRepositories", <<>>)

\* the repositories of a GitHub world w (full name -> pull requests); a request
\* for any other repository is answered 404
RepoOf(w, name) == IF name \in DOMAIN w THEN w[name] ELSE <<>>
NetFor(w, name, net) ==
    IF name \in DOMAIN w THEN net ELSE [net EXCEPT !.listError = "Not Found"]

\* the adapter call c made against the world w under the network conditions net
GitHubExec(c, w, net) ==
    LET repo == RepoOf(w, DefaultRepository)
    IN  CASE c.op = "getPRsMergedWithoutApproval" -> getPRsMergedWithoutApproval(repo, net)
          [] c.op = "getPRsReviewedByUser" -> getPRsReviewedByUser(c.args[1], repo, net)
          [] c.op = "getPRsWaitingForReview" -> getPRsWaitingForReview(repo, net)
          [] c.op = "getPRsMergedLastWeek" -> getPRsMergedLastWeek(repo, net)
          [] c.op = "getPullRequest" ->
                getPullRequest(RepoOf(w, c.args[1]), c.args[2], NetFor(w, c.args[1], net))
          [] c.op = "getPullRequests" -> getPullRequests(repo, "all", DefaultLimit, net)
          [] c.op = "getRepositories" -> getRepositories(net)

\* the adapter call handleJiraQuery selects (lines 124-133)
JiraCall(a) ==
    LET params == ParamsOf(a)
    IN  IF ~Has(a, "parameters") THEN Call("TypeError", <<"issueKey">>)
        ELSE IF TruthyStr(params, "issueKey") THEN Call("getIssue", <<params["issueKey"]>>)
        ELSE IF TruthyStr(params, "user") THEN Call("searchAccessIssues", <<params["user"]>>)
        ELSE Call("searchIssues", <<generateJQL(params)>>)

JiraExec(c, configured, netError) ==
    CASE c.op = "getIssue" -> getIssue(c.args[1], configured, netError)
      [] c.op = "searchAccessIssues" -> searchAccessIssues(c.args[1], configured, netError)
      [] c.op = "searchIssues" -> searchIssues(c.args[1], DefaultMaxResults, configured, netError)

\* the catch blocks of the three single-source handlers (lines 114, 135, 170)
GitHubError(msg, params) == Obj([error |-> msg, queryType |-> "github", parameters |-> params])
JiraError(msg, params) == Obj([error |-> msg, queryType |-> "jira", parameters |-> params])
DocumentError(msg, params) == Obj([error |-> msg, queryType |-> "document"])

\* the empty store reported as a failure
NoDocumentsAsError ==
    Obj([error |-> "No documents available for analysis", queryType |-> "document"])

NoDocuments ==
    Obj([message |-> "No documents available for analysis",
         suggestion |-> "Upload CSV or Excel files using the /api/documents/upload endpoint"])

\* files.sort((a, b) => new Date(b.lastModified) - new Date(a.lastModified))[0]
MostRecent(files) ==
    files[CHOOSE i \in 1..Len(files) :
              \A j \in 1..Len(files) : files[j].lastModified <= files[i].lastModified]

(***************************************************************************)
(* Inputs                                                                  *)
(***************************************************************************)
Fragments == {"show ", "merge ", "pr #456 ", "ticket ", "ABC-123 ", "csv ", "export ",
              "user: bob "}

\* the query strings made of at most n fragments
RECURSIVE Queries(_)
Queries(n) ==
    IF n = 0 THEN {""}
    ELSE Queries(n - 1) \cup { q \o f : q \in Queries(n - 1), f \in Fragments }

\* the query strings posted to the route
RequestQueries ==
    {"", "show ", "merge ticket ", "pr #456 ABC-123 ", "ticket ABC-123 ", "ticket csv ",
     "ticket user: bob ", "export csv ", "merge repo: acme/web ",
     "Show me the last 5 pull requests",
     "Why was PR #456 merged without approval?"}

\* req.body.query
Bodies ==
    {Undefined, Null, Num(0), Num(7), Bool(TRUE), Obj(EmptyObject), Arr(<<>>)}
    \cup { Str(q) : q \in RequestQueries }

\* a model answer holding every key of the prompt's JSON format
FullObject(qt, intent, params) ==
    <<"{", "queryType:" \o qt, "intent:" \o intent, "parameters:", "{">> \o params
    \o <<"}", "source:" \o qt, "action:fetch", "confidence:9", "}">>

ModelTexts ==
    { <<"txt">>,
      <<"}", "txt", "{">>,
      <<"txt", "{", "txt", "}">>,
      <<"{", "}">>,
      <<"{", "queryType:github", "}">>,
      <<"{", "queryType:github", "intent:PRs reviewed by bob", "}">>,
      <<"{", "queryType:jira", "}">>,
      <<"{", "queryType:document", "intent:Analyze the register", "}">>,
      <<"txt">> \o FullObject("github", "PRs merged without approval", <<>>) \o <<"txt">>,
      FullObject("github", "PRs Reviewed By bob", <<"user:Bob">>),
      FullObject("github", "PRs waiting for review", <<>>),
      FullObject("github", "PRs merged last week", <<>>),
      FullObject("github", "List the pull requests", <<>>),
      FullObject("github", "Show one PR", <<"prNumber:456">>),
      FullObject("github", "Show one PR", <<"prNumber:7", "repository:acme/web">>),
      FullObject("github", "List the pull requests", <<"repository:acme/web">>),
      FullObject("jira", "Find the ticket", <<"issueKey:ABC-123", "user:bob">>),
      FullObject("jira", "Access given to bob", <<"user:bob">>),
      FullObject("jira", "Tickets that are done", <<"status:Done", "project:OPS">>),
      FullObject("document", "Export the laptops", <<"exportFormat:excel">>),
      FullObject("general", "Everything", <<>>),
      FullObject("weather", "Forecast", <<>>),
      FullObject("github", "Show one PR", <<"prNumber:456">>) \o <<"txt">>
          \o FullObject("jira", "Find the ticket", <<"issueKey:ABC-123">>) }

ModelOutcomes == {ModelThrows} \cup { ModelText(t) : t \in ModelTexts }

\* the outcomes of the model call a configured / unconfigured AIService can see
ModelCall(configured) == IF configured THEN ModelOutcomes ELSE {NoModel}

\* the outcomes of the model call of generateSummary
SummaryCall(configured) == IF configured THEN {ModelThrows, ModelText(<<"txt">>)} ELSE {NoModel}

ApiPR(number, state, merged, created, mergedAt, reviews) ==
    [number |-> number, state |-> state, merged |-> merged, created_min |-> created,
     merged_min |-> mergedAt, reviews |-> reviews]

Review(user, state) == [user |-> user, state |-> state]

\* the GitHub worlds the router is run against
RouterWorlds ==
    { (DefaultRepository :> <<>>),
      (DefaultRepository :>
          << ApiPR(456, "closed", TRUE, 3000, 600, <<>>),
             ApiPR(7, "open", FALSE, 1800, -1, <<>>),
             ApiPR(8, "closed", TRUE, 9000, 90, <<Review("bob", "COMMENTED"),
                                                   Review("Bob", "APPROVED")>>) >>)
      @@ ("acme/web" :> << ApiPR(7, "open", FALSE, 30, -1, <<Review("eve", "CHANGES_REQUESTED")>>) >>) }

Nets == [listError : {"", "Bad credentials"}, reviewErrors : {{}, {8}}]

NetErrors == {"", "Request failed with status code 401"}
FsErrors == {"", "EACCES: permission denied"}

UploadDirs == {<<>>, <<".gitkeep">>, <<"assets.csv">>, <<"laptops.xlsx", "notes.txt">>}

(***************************************************************************)
(* POST /api/query                                                         *)
(***************************************************************************)
NoResponse == [status |-> 0]

\* no adapter call of the GitHub service is pending a look at its value
NoCall == [op |-> "none", res |-> Returned(Undefined)]

\* the frontend is not loaded
Unmounted == [status |-> "unmounted"]

\* no export is being checked, no concurrent call is running and no page is open
NoDocumentWork ==
    /\ records = <<>>
    /\ reparsed = Undefined
    /\ tasks = <<>>
    /\ aloneDir = <<>>
    /\ app = Unmounted

BadRequest ==
    [status |-> 400,
     json |-> [error |-> "Query is required and must be a string",
               example |-> "Why was PR #456 merged without approval?"]]

\* the catch of the handler (lines 59-66)
ServerError(msg, q) ==
    [status |-> 500, json |-> [error |-> "Failed to process query", message |-> msg, query |-> q]]

Ok(q, a, e, text) ==
    [status |-> 200,
     json |-> [query |-> q, analysis |-> a, evidence |-> e, summary |-> text,
               timestamp |-> "now"]]

\* the validation without its typeof test
RejectedFalsyOnly(b) == ~Truthy(b)

\* lines 13-20: the validation of req.body.query
Rejected(b) == ~Truthy(b) \/ TypeOf(b) # "string"

Init ==
    /\ genAI \in BOOLEAN
    /\ jiraConfigured \in BOOLEAN
    /\ uploads \in UploadDirs
    /\ pc = "idle"
    /\ body = Undefined
    /\ analysis = EmptyObject
    /\ usedModel = FALSE
    /\ evidence = Obj(EmptyObject)
    /\ calls = <<>>
    /\ summary = ""
    /\ response = NoResponse
    /\ prs = <<>>
    /\ ghResult = NoCall
    /\ NoDocumentWork

\* a request arrives; lines 11-20
PostQuery ==
    /\ pc = "idle"
    /\ \E b \in Bodies :
        /\ body' = b
        /\ IF Rejected(b)
           THEN pc' = "done" /\ response' = BadRequest
           ELSE pc' = "analyze" /\ response' = NoResponse
    /\ UNCHANGED <<genAI, jiraConfigured, uploads, analysis, usedModel, evidence, calls,
                   summary, prs, ghResult, auxVars>>

\* the response is sent and the locals of the handler are gone; the services
\* and the uploads directory stay
FinishRequest ==
    /\ pc = "done"
    /\ pc' = "idle"
    /\ body' = Undefined
    /\ analysis' = EmptyObject
    /\ usedModel' = FALSE
    /\ evidence' = Obj(EmptyObject)
    /\ calls' = <<>>
    /\ summary' = ""
    /\ response' = NoResponse
    /\ UNCHANGED <<genAI, jiraConfigured, uploads, prs, ghResult, auxVars>>

\* the entry of a call of the generative model in the call log
ModelEntry(outcome) ==
    [op |-> "model.generateContent", args |-> <<>>,
     res |-> IF outcome.kind = "throw" THEN Threw("fetch failed")
             ELSE Returned(Arr(outcome.text))]

\* line 24: const analysis = await aiService.analyzeQuery(query)
AnalyzeQuery ==
    /\ pc = "analyze"
    /\ \E outcome \in ModelCall(genAI) :
        /\ analysis' = analyzeQuery(body.s, genAI, outcome)
        /\ usedModel' = ParsedFromModel(genAI, outcome)
        /\ calls' = calls
                    \o <<[op |-> "aiService.analyzeQuery", args |-> <<body.s>>,
                          res |-> Returned(Undefined)]>>
                    \o (IF genAI THEN <<ModelEntry(outcome)>> ELSE <<>>)
    /\ pc' = "route"
    /\ UNCHANGED <<genAI, jiraConfigured, uploads, body, evidence, summary, response,
                   prs, ghResult, auxVars>>

\* analysis.queryType of the switch (line 30)
QueryTypeOf(a) == IF Has(a, "queryType") THEN a.queryType ELSE "undefined"

\* case 'github': handleGitHubQuery.  The read of analysis.intent (line 77) is
\* outside the handler's try: without an intent it throws to the route's catch.
HandleGitHubQuery ==
    /\ pc = "route"
    /\ QueryTypeOf(analysis) = "github"
    /\ IF ~Has(analysis, "intent")
       THEN /\ response' = ServerError(TypeErrorMessage("toLowerCase"), body.s)
            /\ pc' = "done"
            /\ UNCHANGED <<evidence, calls>>
       ELSE LET c == GitHubCall(analysis)
            IN  IF c.op = "TypeError"
                THEN /\ evidence' = GitHubError(TypeErrorMessage(c.args[1]), ParamsOf(analysis))
                     /\ pc' = "summary"
                     /\ UNCHANGED <<calls, response>>
                ELSE \E w \in RouterWorlds, net \in Nets :
                        LET r == GitHubExec(c, w, net)
                        IN  /\ calls' = Append(calls, [op |-> "githubService." \o c.op,
                                                       args |-> c.args, res |-> r])
                            /\ evidence' = IF r.threw
                                           THEN GitHubError(r.msg, ParamsOf(analysis))
                                           ELSE r.data
                            /\ pc' = "summary"
                            /\ UNCHANGED response
    /\ UNCHANGED <<genAI, jiraConfigured, uploads, body, analysis, usedModel, summary,
                   prs, ghResult, auxVars>>

\* case 'jira': handleJiraQuery
HandleJiraQuery ==
    /\ pc = "route"
    /\ QueryTypeOf(analysis) = "jira"
    /\ LET c == JiraCall(analysis)
       IN  IF c.op = "TypeError"
           THEN /\ evidence' = JiraError(TypeErrorMessage(c.args[1]), ParamsOf(analysis))
                /\ UNCHANGED calls
           ELSE \E netError \in NetErrors :
                   LET r == JiraExec(c, jiraConfigured, netError)
                   IN  /\ calls' = Append(calls, [op |-> "jiraService." \o c.op,
                                                  args |-> c.args, res |-> r])
                       /\ evidence' = IF r.threw THEN JiraError(r.msg, ParamsOf(analysis))
                                      ELSE r.data
    /\ pc' = "summary"
    /\ UNCHANGED <<genAI, jiraConfigured, uploads, body, analysis, usedModel, summary,
                   response, prs, ghResult, auxVars>>

\* handleDocumentQuery (lines 142-172) run on the directory dir: the evidence it
\* returns, the adapter calls it made and the directory it leaves
handleDocumentQuery(a, dir, fsError, parseError, writeError) ==
    LET listed == getAvailableFiles(dir, fsError)
        c1 == <<[op |-> "documentService.getAvailableFiles", args |-> <<>>, res |-> listed]>>
    IN  IF listed.threw
        THEN [evidence |-> DocumentError(listed.msg, ParamsOf(a)), calls |-> c1, dir |-> dir]
        ELSE IF Len(listed.data.items) = 0
        THEN [evidence |-> NoDocuments, calls |-> c1, dir |-> dir]
        ELSE
        LET mostRecent == MostRecent(listed.data.items)
            analyzed == analyzeDocument(mostRecent.filename, dir, parseError)
            c2 == c1 \o <<[op |-> "documentService.analyzeDocument",
                           args |-> <<mostRecent.filename>>, res |-> analyzed]>>
        IN  IF analyzed.threw
            THEN [evidence |-> DocumentError(analyzed.msg, ParamsOf(a)), calls |-> c2, dir |-> dir]
            ELSE IF ~Has(a, "parameters")
            THEN [evidence |-> DocumentError(TypeErrorMessage("exportFormat"), ParamsOf(a)),
                  calls |-> c2, dir |-> dir]
            ELSE IF ~TruthyStr(a.parameters, "exportFormat")
            THEN [evidence |-> analyzed.data, calls |-> c2, dir |-> dir]
            ELSE
            LET format == IF a.parameters["exportFormat"] = "excel" THEN "excel" ELSE "csv"
                exported == exportTo(format, "evidence_export", writeError)
                c3 == c2 \o <<[op |-> IF format = "excel" THEN "documentService.exportToExcel"
                                      ELSE "documentService.exportToCSV",
                               args |-> <<"evidence_export">>, res |-> exported]>>
            IN  IF exported.threw
                THEN [evidence |-> DocumentError(exported.msg, ParamsOf(a)), calls |-> c3,
                      dir |-> dir]
                ELSE [evidence |-> Obj(("export" :> exported.data.o) @@ analyzed.data.o),
                      calls |-> c3,
                      dir |-> WriteFile(dir, ExportName("evidence_export", format))]

\* case 'document'
HandleDocumentQuery ==
    /\ pc = "route"
    /\ QueryTypeOf(analysis) = "document"
    /\ \E fsError \in FsErrors, parseError \in FsErrors, writeError \in FsErrors :
          LET out == handleDocumentQuery(analysis, uploads, fsError, parseError, writeError)
          IN  /\ evidence' = out.evidence
              /\ calls' = calls \o out.calls
              /\ uploads' = out.dir
    /\ pc' = "summary"
    /\ UNCHANGED <<genAI, jiraConfigured, body, analysis, usedModel, summary, response,
                   prs, ghResult, auxVars>>

\* a catch that drops the provider's message
SectionWithoutMessage(r) == IF r.threw THEN Obj([error |-> "Request failed"]) ELSE r.data

\* a section of handleGeneralQuery's results: the provider's data, or the catch
Section(r) == IF r.threw THEN Obj([error |-> r.msg]) ELSE r.data

\* case 'general': handleGeneralQuery, lines 181-186
HandleGeneralGitHub ==
    /\ pc = "route"
    /\ QueryTypeOf(analysis) = "general"
    /\ \E net \in Nets :
          LET r == getRepositories(net)
          IN  /\ calls' = Append(calls, [op |-> "githubService.getRepositories",
                                         args |-> <<>>, res |-> r])
              /\ evidence' = Obj("github" :> Section(r))
    /\ pc' = "general_jira"
    /\ UNCHANGED <<genAI, jiraConfigured, uploads, body, analysis, usedModel, summary,
                   response, prs, ghResult, auxVars>>

\* lines 188-193
HandleGeneralJira ==
    /\ pc = "general_jira"
    /\ \E netError \in NetErrors :
          LET r == searchIssues("ORDER BY updated DESC", GeneralMaxResults,
                                jiraConfigured, netError)
          IN  /\ calls' = Append(calls, [op |-> "jiraService.searchIssues",
                                         args |-> <<"ORDER BY updated DESC">>, res |-> r])
              /\ evidence' = Obj(("jira" :> Section(r)) @@ evidence.o)
    /\ pc' = "general_documents"
    /\ UNCHANGED <<genAI, jiraConfigured, uploads, body, analysis, usedModel, summary,
                   response, prs, ghResult, auxVars>>

\* lines 195-203
HandleGeneralDocuments ==
    /\ pc = "general_documents"
    /\ \E fsError \in FsErrors :
          LET r == getAvailableFiles(uploads, fsError)
          IN  /\ calls' = Append(calls, [op |-> "documentService.getAvailableFiles",
                                         args |-> <<>>, res |-> r])
              /\ evidence' = Obj(("documents" :>
                                    (IF r.threw THEN Obj([error |-> r.msg])
                                     ELSE Obj([available_files |-> r.data])))
                                 @@ evidence.o)
    /\ pc' = "summary"
    /\ UNCHANGED <<genAI, jiraConfigured, uploads, body, analysis, usedModel, summary,
                   response, prs, ghResult, auxVars>>

\* a switch whose default throws
HandleUnrecognizedThrows ==
    /\ pc = "route"
    /\ QueryTypeOf(analysis) \notin {"github", "jira", "document", "general"}
    /\ response' = ServerError("Query type not recognized", body.s)
    /\ pc' = "done"
    /\ UNCHANGED <<genAI, jiraConfigured, uploads, body, analysis, usedModel, calls,
                   summary, evidence, prs, ghResult, auxVars>>

\* default: of the switch (line 45)
HandleUnrecognized ==
    /\ pc = "route"
    /\ QueryTypeOf(analysis) \notin {"github", "jira", "document", "general"}
    /\ evidence' = Obj([message |-> "Query type not recognized", analysis |-> analysis])
    /\ pc' = "summary"
    /\ UNCHANGED <<genAI, jiraConfigured, uploads, body, analysis, usedModel, calls,
                   summary, response, prs, ghResult, auxVars>>

\* lines 49-57: the summary and the response
GenerateSummary ==
    /\ pc = "summary"
    /\ \E outcome \in SummaryCall(genAI) :
          LET text == generateSummary(evidence, IntentText(analysis), genAI, outcome)
          IN  /\ summary' = text
              /\ calls' = calls
                          \o <<[op |-> "aiService.generateSummary", args |-> <<>>,
                                res |-> Returned(Str(text))]>>
                          \o (IF genAI THEN <<ModelEntry(outcome)>> ELSE <<>>)
              /\ response' = Ok(body.s, analysis, evidence, text)
    /\ pc' = "done"
    /\ UNCHANGED <<genAI, jiraConfigured, uploads, body, analysis, usedModel, evidence,
                   prs, ghResult, auxVars>>

Next ==
    \/ PostQuery
    \/ AnalyzeQuery
    \/ HandleGitHubQuery
    \/ HandleJiraQuery
    \/ HandleDocumentQuery
    \/ HandleGeneralGitHub
    \/ HandleGeneralJira
    \/ HandleGeneralDocuments
    \/ HandleUnrecognized
    \/ GenerateSummary
    \/ FinishRequest

Spec == Init /\ [][Next]_vars

(***************************************************************************)
(* The GitHub adapter run against a repository that changes                *)
(***************************************************************************)
Reviewers == {"bob"}

InitGitHub ==
    /\ genAI = FALSE
    /\ jiraConfigured = FALSE
    /\ uploads = <<>>
    /\ pc = "idle"
    /\ body = Undefined
    /\ analysis = EmptyObject
    /\ usedModel = FALSE
    /\ evidence = Obj(EmptyObject)
    /\ calls = <<>>
    /\ summary = ""
    /\ response = NoResponse
    /\ prs = <<>>
    /\ ghResult = NoCall
    /\ NoDocumentWork

TotalReviews(repo) ==
    LET RECURSIVE Sum(_)
        Sum(i) == IF i > Len(repo) THEN 0 ELSE Len(repo[i].reviews) + Sum(i + 1)
    IN  Sum(1)

\* somebody opens, closes or merges a pull request
OpenPullRequest ==
    /\ ghResult = NoCall
    /\ Len(prs) < MaxPRs
    /\ \E st \in {<<"open", FALSE>>, <<"closed", FALSE>>, <<"closed", TRUE>>} :
          prs' = Append(prs, ApiPR(Len(prs) + 1, st[1], st[2], 1800,
                                   IF st[2] THEN 600 ELSE -1, <<>>))
    /\ UNCHANGED <<reqVars, auxVars, ghResult>>

\* somebody reviews a pull request
SubmitReview ==
    /\ ghResult = NoCall
    /\ TotalReviews(prs) < MaxReviews
    /\ \E i \in 1..Len(prs), u \in Reviewers, st \in ReviewStates :
          prs' = [prs EXCEPT ![i].reviews = Append(@, Review(u, st))]
    /\ UNCHANGED <<reqVars, auxVars, ghResult>>

\* what the network does to one call: the list (or detail) request fails or not,
\* and the reviews request fails for some of the pull requests
GitHubNets(repo) == [listError : {"", "Bad credentials"}, reviewErrors : SUBSET (1..Len(repo))]

CallGetPullRequests ==
    /\ ghResult = NoCall
    /\ \E state \in {"all", "open", "closed"}, net \in GitHubNets(prs) :
          ghResult' = [op |-> "getPullRequests", state |-> state, net |-> net,
                       res |-> getPullRequests(prs, state, DefaultLimit, net)]
    /\ UNCHANGED <<reqVars, auxVars, prs>>

CallGetPullRequest ==
    /\ ghResult = NoCall
    /\ \E n \in 1..MaxPRs, net \in GitHubNets(prs) :
          ghResult' = [op |-> "getPullRequest", res |-> getPullRequest(prs, ToString(n), net)]
    /\ UNCHANGED <<reqVars, auxVars, prs>>

\* the caller is done with the value
DropResult ==
    /\ ghResult # NoCall
    /\ ghResult' = NoCall
    /\ UNCHANGED <<reqVars, auxVars, prs>>

NextGitHub ==
    \/ OpenPullRequest
    \/ SubmitReview
    \/ CallGetPullRequests
    \/ CallGetPullRequest
    \/ DropResult

SpecGitHub == InitGitHub /\ [][NextGitHub]_vars

(***************************************************************************)
(* The deterministic classifier applied to query strings                   *)
(***************************************************************************)
\* the example queries of GET /api/query/suggestions and of the README, under
\* the queryType of the category that lists them
Example(qt, qs) == { [queryType |-> qt, query |-> q] : q \in qs }

ExampleQueries ==
    Example("github", {"Why was PR #456 merged without approval?",
                       "Show me the last 5 pull requests",
                       "Show me the last 5 pull requests in the main repository",
                       "List all open issues with high priority",
                       "Get details for pull request #123"})
    \cup Example("jira", {"Show access given to Jane for Prod DB",
                          "List all tickets in TODO status",
                          "Find approval workflows for user access",
                          "Get issue ABC-123 details"})
    \cup Example("document", {"Share the current count of laptops and export to CSV",
                              "Share the current count of laptops in the office and export to CSV",
                              "Analyze the asset register",
                              "Analyze the asset register and show summary",
                              "Process the uploaded invoice data",
                              "Show me document statistics"})
    \cup Example("general", {"Show me all available evidence sources",
                             "What data is available for audit?",
                             "Give me a summary of recent activity"})

InitClassifier ==
    /\ genAI = FALSE
    /\ jiraConfigured = FALSE
    /\ uploads = <<>>
    /\ pc = "idle"
    /\ body \in { Str(q) : q \in Queries(MaxWords) \cup { e.query : e \in ExampleQueries } }
    /\ analysis = EmptyObject
    /\ usedModel = FALSE
    /\ evidence = Obj(EmptyObject)
    /\ calls = <<>>
    /\ summary = ""
    /\ response = NoResponse
    /\ prs = <<>>
    /\ ghResult = NoCall
    /\ NoDocumentWork

\* aiService.fallbackAnalysis(query)
Classify ==
    /\ pc = "idle"
    /\ analysis' = fallbackAnalysis(body.s)
    /\ pc' = "classified"
    /\ UNCHANGED <<genAI, jiraConfigured, uploads, body, usedModel, evidence, calls,
                   summary, response, prs, ghResult, auxVars>>

NextClassifier == Classify

SpecClassifier == InitClassifier /\ [][NextClassifier]_vars

(***************************************************************************)
(* The aggregate methods of the GitHub adapter applied to repositories     *)
(***************************************************************************)
\* minutes since created_at: 10 hours, exactly 24 hours, 30 hours and a half
Ages == {600, 1440, 1830}

\* the pull requests a repository can hold under the number n
PullRequestOptions(n) ==
    { ApiPR(n, "open", FALSE, age, -1, rv) :
          age \in Ages, rv \in {<<>>, <<Review("bob", "COMMENTED")>>} }
    \cup { ApiPR(n, "closed", FALSE, 1830, -1, <<>>) }
    \cup { ApiPR(n, "closed", TRUE, 1830, 600, rv) :
              rv \in {<<>>, <<Review("bob", "APPROVED"), Review("eve", "APPROVED")>>,
                      <<Review("eve", "CHANGES_REQUESTED")>>, <<Review("bob", "COMMENTED")>>,
                      <<Review("Bob", "CHANGES_REQUESTED"), Review("eve", "COMMENTED"),
                        Review("bob", "APPROVED"), Review("bobby", "COMMENTED")>>,
                      <<Review("bobby", "APPROVED")>>} }

\* the reviewer argument of getPRsReviewedByUser
ReviewerArguments == {"bob", "BOB", "eve", "bo"}

\* the repositories of at most n pull requests, numbered in list order
RECURSIVE Repositories(_)
Repositories(n) ==
    IF n = 0 THEN {<<>>}
    ELSE Repositories(n - 1)
         \cup { Append(r, pr) : r \in { x \in Repositories(n - 1) : Len(x) = n - 1 },
                                pr \in PullRequestOptions(n) }

InitAggregates ==
    /\ genAI = FALSE
    /\ jiraConfigured = FALSE
    /\ uploads = <<>>
    /\ pc = "idle"
    /\ body = Undefined
    /\ analysis = EmptyObject
    /\ usedModel = FALSE
    /\ evidence = Obj(EmptyObject)
    /\ calls = <<>>
    /\ summary = ""
    /\ response = NoResponse
    /\ prs \in Repositories(MaxPRs)
    /\ ghResult = NoCall
    /\ NoDocumentWork

\* list is the value of the method's own await this.getPullRequests(...)
CallGetPRsMergedWithoutApproval ==
    /\ ghResult = NoCall
    /\ \E net \in GitHubNets(prs) :
          ghResult' = [op |-> "getPRsMergedWithoutApproval",
                       res |-> getPRsMergedWithoutApproval(prs, net),
                       list |-> getPullRequests(prs, "closed", DefaultLimit, net)]
    /\ UNCHANGED <<reqVars, auxVars, prs>>

CallGetPRsWaitingForReview ==
    /\ ghResult = NoCall
    /\ \E net \in GitHubNets(prs) :
          ghResult' = [op |-> "getPRsWaitingForReview",
                       res |-> getPRsWaitingForReview(prs, net),
                       list |-> getPullRequests(prs, "open", DefaultLimit, net)]
    /\ UNCHANGED <<reqVars, auxVars, prs>>

CallGetPRsReviewedByUser ==
    /\ ghResult = NoCall
    /\ \E reviewer \in ReviewerArguments, net \in GitHubNets(prs) :
          ghResult' = [op |-> "getPRsReviewedByUser", reviewer |-> reviewer,
                       res |-> getPRsReviewedByUser(reviewer, prs, net),
                       list |-> getPullRequests(prs, "all", DefaultLimit, net)]
    /\ UNCHANGED <<reqVars, auxVars, prs>>

NextAggregates ==
    \/ CallGetPRsMergedWithoutApproval
    \/ CallGetPRsWaitingForReview
    \/ CallGetPRsReviewedByUser
    \/ DropResult

SpecAggregates == InitAggregates /\ [][NextAggregates]_vars

(***************************************************************************)
(* DocumentService: an export parsed back                                  *)
(***************************************************************************)
\* the values of a record: numbers with 0, the empty string, and strings with a
\* comma, a quote or a line break
NameValues == {Num(0), Str(""), Str("x"), Str("a,b"), Str("q\"r"), Str("l\nm"),
               Str("a,\nb")}
CountValues == {Num(0), Num(7), Str("x")}

RecordsOf == { ("name" :> n) @@ ("count" :> c) : n \in NameValues, c \in CountValues }

RECURSIVE RecordLists(_)
RecordLists(n) ==
    IF n = 0 THEN {<<>>}
    ELSE RecordLists(n - 1)
         \cup { Append(l, r) : l \in { x \in RecordLists(n - 1) : Len(x) = n - 1 },
                               r \in RecordsOf }

InitDocuments ==
    /\ genAI = FALSE
    /\ jiraConfigured = FALSE
    /\ uploads = <<>>
    /\ pc = "idle"
    /\ body = Undefined
    /\ analysis = EmptyObject
    /\ usedModel = FALSE
    /\ evidence = Obj(EmptyObject)
    /\ calls = <<>>
    /\ summary = ""
    /\ response = NoResponse
    /\ prs = <<>>
    /\ ghResult = NoCall
    /\ records \in RecordLists(MaxRecords)
    /\ reparsed = Undefined
    /\ tasks = <<>>
    /\ aloneDir = <<>>
    /\ app = Unmounted

\* exportToCSV(data, 'evidence_export'): the content written to the file
ExportToCSV ==
    /\ reparsed = Undefined
    /\ reparsed' = [file |-> convertToCSV(records)]
    /\ uploads' = WriteFile(uploads, ExportName("evidence_export", "csv"))
    /\ UNCHANGED <<genAI, jiraConfigured, pc, body, analysis, usedModel, evidence, calls,
                   summary, response, prs, ghResult, records, tasks, aloneDir, app>>

\* parseCSV(path of the exported file)
ParseCSV ==
    /\ reparsed # Undefined
    /\ DOMAIN reparsed = {"file"}
    /\ reparsed' = [file |-> reparsed.file, parsed |-> parseCSV(reparsed.file)]
    /\ UNCHANGED <<reqVars, ghVars, records, tasks, aloneDir, app>>

NextDocuments ==
    \/ ExportToCSV
    \/ ParseCSV

SpecDocuments == InitDocuments /\ [][NextDocuments]_vars

(***************************************************************************)
(* Document queries handled at the same time.  Each request is an async    *)
(* function: it runs until its next await, and another request runs in     *)
(* between.  The awaits of a document query are aiService.analyzeQuery     *)
(* (line 24), documentService.analyzeDocument (line 155, the file is read  *)
(* as a stream) and aiService.generateSummary (line 49); the directory     *)
(* listing and the export's writeFileSync are synchronous.                 *)
(***************************************************************************)
\* what the classifier returns for the document queries posted
DocumentAnalyses == { fallbackAnalysis(q) : q \in {"csv ", "export csv ", "export excel "} }

NewTask == [pc |-> "analyze", analysis |-> EmptyObject, file |-> "",
            evidence |-> Obj(EmptyObject)]

InitConcurrent ==
    /\ genAI = FALSE
    /\ jiraConfigured = FALSE
    /\ uploads \in UploadDirs
    /\ pc = "idle"
    /\ body = Undefined
    /\ analysis = EmptyObject
    /\ usedModel = FALSE
    /\ evidence = Obj(EmptyObject)
    /\ calls = <<>>
    /\ summary = ""
    /\ response = NoResponse
    /\ prs = <<>>
    /\ ghResult = NoCall
    /\ records = <<>>
    /\ reparsed = Undefined
    /\ tasks = [i \in 1..MaxTasks |-> NewTask]
    /\ aloneDir = uploads
    /\ app = Unmounted

\* analyzeQuery resolves; the handler runs on to the await of analyzeDocument:
\* getAvailableFiles, the empty-store return, the choice of the newest file
TaskListFiles(i) ==
    /\ tasks[i].pc = "analyze"
    /\ \E a \in DocumentAnalyses :
          LET listed == getAvailableFiles(uploads, "")
          IN  tasks' = [tasks EXCEPT ![i] =
                  IF Len(listed.data.items) = 0
                  THEN [pc |-> "summary", analysis |-> a, file |-> "",
                        evidence |-> NoDocuments]
                  ELSE [pc |-> "analyzing", analysis |-> a,
                        file |-> MostRecent(listed.data.items).filename,
                        evidence |-> Obj(EmptyObject)]]
    /\ UNCHANGED <<reqVars, ghVars, records, reparsed, aloneDir, app>>

\* analyzeDocument resolves; the handler runs on through the export
TaskExport(i) ==
    /\ tasks[i].pc = "analyzing"
    /\ LET a == tasks[i].analysis
           analyzed == analyzeDocument(tasks[i].file, uploads, "")
           format == IF a.parameters["exportFormat"] = "excel" THEN "excel" ELSE "csv"
           exported == exportTo(format, "evidence_export", "")
       IN  IF analyzed.threw
           THEN /\ tasks' = [tasks EXCEPT ![i].pc = "summary",
                                          ![i].evidence = DocumentError(analyzed.msg, a.parameters)]
                /\ UNCHANGED uploads
           ELSE IF ~TruthyStr(a.parameters, "exportFormat")
           THEN /\ tasks' = [tasks EXCEPT ![i].pc = "summary", ![i].evidence = analyzed.data]
                /\ UNCHANGED uploads
           ELSE /\ tasks' = [tasks EXCEPT ![i].pc = "summary",
                                          ![i].evidence =
                                              Obj(("export" :> exported.data.o) @@ analyzed.data.o)]
                /\ uploads' = WriteFile(uploads, ExportName("evidence_export", format))
    /\ UNCHANGED <<genAI, jiraConfigured, pc, body, analysis, usedModel, evidence, calls,
                   summary, response, prs, ghResult, records, reparsed, aloneDir, app>>

\* generateSummary resolves and the response is sent
TaskRespond(i) ==
    /\ tasks[i].pc = "summary"
    /\ tasks' = [tasks EXCEPT ![i].pc = "done"]
    /\ UNCHANGED <<reqVars, ghVars, records, reparsed, aloneDir, app>>

NextConcurrent ==
    \/ \E i \in 1..MaxTasks : TaskListFiles(i)
    \/ \E i \in 1..MaxTasks : TaskExport(i)
    \/ \E i \in 1..MaxTasks : TaskRespond(i)

SpecConcurrent == InitConcurrent /\ [][NextConcurrent]_vars

(***************************************************************************)
(* The frontend (frontend/src/App.jsx, components/QueryInput.jsx).  app    *)
(* holds the state of App (status, result, error, uploadStatus), the text  *)
(* of QueryInput, the number of requests in flight of each kind (a manual  *)
(* query, an upload, the query an upload runs after it) and the last call  *)
(* of onSubmit.  Every event handler and every continuation of an await    *)
(* is one action.                                                          *)
(***************************************************************************)
\* what the user can type into the query input
InputTexts == {"", "  ", " show prs "}

FlightKinds == {"query", "upload", "auto"}

\* String.prototype.trim
trim(s) ==
    LET kept == { i \in 1..Len(s) : ~IsSpace(CharAt(s, i)) }
    IN  IF kept = {} THEN "" ELSE SubSeq(s, Least(kept), Greatest(kept))

\* requests of the page awaiting their response
InFlight(a) == a.flights["query"] + a.flights["upload"] + a.flights["auto"]

\* useState initial values (App.jsx lines 10-15, QueryInput.jsx line 6)
InitFrontend ==
    /\ genAI = FALSE
    /\ jiraConfigured = FALSE
    /\ uploads = <<>>
    /\ pc = "idle"
    /\ body = Undefined
    /\ analysis = EmptyObject
    /\ usedModel = FALSE
    /\ evidence = Obj(EmptyObject)
    /\ calls = <<>>
    /\ summary = ""
    /\ response = NoResponse
    /\ prs = <<>>
    /\ ghResult = NoCall
    /\ records = <<>>
    /\ reparsed = Undefined
    /\ tasks = <<>>
    /\ aloneDir = <<>>
    /\ app = [status |-> "idle", result |-> Null, error |-> Null, uploadStatus |-> "idle",
              query |-> "", flights |-> [k \in FlightKinds |-> 0],
              submitted |-> [query |-> NoMatch, loading |-> FALSE]]

\* handleQuery up to its await (App.jsx lines 32-38); kind tells a manual
\* query from the one handleFileUpload runs
handleQuery(a, kind) ==
    [a EXCEPT !.status = "loading", !.error = Null, !.result = Null,
              !.flights[kind] = @ + 1]

\* onChange of the input, which is disabled while loading
TypeQuery ==
    /\ app.status # "loading"
    /\ \E text \in InputTexts : app' = [app EXCEPT !.query = text]
    /\ UNCHANGED <<reqVars, ghVars, records, reparsed, tasks, aloneDir>>

\* QueryInput.handleSubmit (lines 10-17) on a submit event of the form
SubmitQuery ==
    /\ InFlight(app) < MaxFlights
    /\ IF trim(app.query) # "" /\ app.status # "loading"
       THEN app' = [handleQuery(app, "query") EXCEPT
                       !.submitted = [query |-> trim(app.query),
                                      loading |-> app.status = "loading"],
                       !.query = ""]
       ELSE UNCHANGED app
    /\ UNCHANGED <<reqVars, ghVars, records, reparsed, tasks, aloneDir>>

\* processQuery resolves (App.jsx lines 39-40); after the query of an upload,
\* handleFileUpload goes on to line 59
QueryResolves ==
    /\ \E kind \in {"query", "auto"} :
          /\ app.flights[kind] > 0
          /\ app' = [app EXCEPT !.result = Obj([summary |-> "Audit summary"]),
                                !.status = "success",
                                !.flights[kind] = @ - 1,
                                !.uploadStatus = IF kind = "auto" THEN "success" ELSE @]
    /\ UNCHANGED <<reqVars, ghVars, records, reparsed, tasks, aloneDir>>

\* processQuery rejects (App.jsx lines 41-45); handleQuery itself still
\* resolves, so handleFileUpload goes on to line 59
QueryRejects ==
    /\ \E kind \in {"query", "auto"} :
          /\ app.flights[kind] > 0
          /\ app' = [app EXCEPT !.error = Str("Failed to process query"),
                                !.status = "error",
                                !.flights[kind] = @ - 1,
                                !.uploadStatus = IF kind = "auto" THEN "success" ELSE @]
    /\ UNCHANGED <<reqVars, ghVars, records, reparsed, tasks, aloneDir>>

\* a file is chosen: handleFileChange, then handleFileUpload up to its await
\* (App.jsx lines 49-54); the upload button is disabled while loading
SelectFile ==
    /\ app.status # "loading"
    /\ InFlight(app) < MaxFlights
    /\ app' = [app EXCEPT !.uploadStatus = "loading", !.error = Null,
                          !.flights["upload"] = @ + 1]
    /\ UNCHANGED <<reqVars, ghVars, records, reparsed, tasks, aloneDir>>

\* documentAPI.uploadFile resolves: handleQuery(autoQuery) is called (lines 57-58)
UploadResolves ==
    /\ app.flights["upload"] > 0
    /\ app' = [handleQuery(app, "auto") EXCEPT !.flights["upload"] = @ - 1]
    /\ UNCHANGED <<reqVars, ghVars, records, reparsed, tasks, aloneDir>>

\* documentAPI.uploadFile rejects (lines 60-64)
UploadRejects ==
    /\ app.flights["upload"] > 0
    /\ app' = [app EXCEPT !.error = Str("Upload failed"), !.uploadStatus = "error",
                          !.flights["upload"] = @ - 1]
    /\ UNCHANGED <<reqVars, ghVars, records, reparsed, tasks, aloneDir>>

\* the Try Again button of the error section (lines 166-170)
TryAgain ==
    /\ app.error # Null
    /\ app' = [app EXCEPT !.error = Null, !.status = "idle"]
    /\ UNCHANGED <<reqVars, ghVars, records, reparsed, tasks, aloneDir>>

NextFrontend ==
    \/ TypeQuery
    \/ SubmitQuery
    \/ QueryResolves
    \/ QueryRejects
    \/ SelectFile
    \/ UploadResolves
    \/ UploadRejects
    \/ TryAgain

SpecFrontend == InitFrontend /\ [][NextFrontend]_vars

(***************************************************************************)
(* Properties                                                              *)
(***************************************************************************)
\* a request is being handled, or was just answered
InRequest == pc # "idle"

\* body.query is absent, empty or not a string
InvalidQuery(b) == b.t # "string" \/ b.s = ""

\* C1: a request whose body.query is absent, empty or not a string is answered
\* 400, and neither the classifier, a provider adapter nor the summary
\* generator is ever invoked for it.
C1_InvalidQueryRejectedFirst ==
    (InRequest /\ InvalidQuery(body))
        => (pc = "done" /\ response.status = 400 /\ calls = <<>>)

C1_Witness ==
    pc = "done" /\ body = Num(7) /\ response = BadRequest /\ calls = <<>>

ResponseKeys == {"query", "analysis", "evidence", "summary", "timestamp"}

\* C2: a non-empty string query is never answered 500: the response is
\* {query, analysis, evidence, summary, timestamp}, whatever the classifier
\* returned and whichever provider calls failed.
C2_NoServerErrorForStringQuery ==
    (pc = "done" /\ ~InvalidQuery(body))
        => (response.status = 200 /\ DOMAIN response.json = ResponseKeys)

\* the outcome of the model call made by analyzeQuery, NoModel when none was made
AnalysisModelCall ==
    IF Len(calls) >= 2 /\ calls[2].op = "model.generateContent"
    THEN (IF calls[2].res.threw THEN ModelThrows ELSE ModelText(calls[2].res.data.items))
    ELSE NoModel

\* the text holds a "{" with a "}" somewhere after it
HasBraceSpan(text) == \E i, j \in 1..Len(text) : i < j /\ text[i] = "{" /\ text[j] = "}"

\* C3: analyzeQuery never raises for a string query, and when the model is
\* not configured, the model call throws, the text has no {...} span or the
\* span is not JSON, it returns fallbackAnalysis(query).
C3_AnalyzeFallsBack ==
    (pc \notin {"idle", "analyze"} /\ ~InvalidQuery(body))
        => /\ analysis # SyntaxError
           /\ (\/ ~genAI
               \/ AnalysisModelCall.kind = "throw"
               \/ ~HasBraceSpan(AnalysisModelCall.text)
               \/ JSONparse(jsonMatch(AnalysisModelCall.text)) = SyntaxError)
                  => analysis = fallbackAnalysis(body.s)

C3_Witness ==
    /\ pc = "route"
    /\ genAI
    /\ AnalysisModelCall = ModelText(<<"txt", "{", "txt", "}">>)
    /\ body = Str("ticket csv ")
    /\ analysis.queryType = "jira"

IntentKeys == {"queryType", "intent", "parameters", "source", "action", "confidence"}
QueryTypes == {"github", "jira", "document", "general"}

CompleteIntent(a) ==
    /\ IntentKeys \subseteq DOMAIN a
    /\ a.queryType \in QueryTypes
    /\ a.confidence \in 0..10

\* C4: every value the classifier returns is a complete Intent: all six keys,
\* a recognised queryType, a confidence in [0,1], also when it is the JSON
\* object of the model text.
C4_CompleteIntent ==
    (pc \notin {"idle", "analyze"} /\ ~InvalidQuery(body)) => CompleteIntent(analysis)

\* the entry of the call of op made for this request
CallOf(op) == calls[CHOOSE i \in 1..Len(calls) : calls[i].op = op]
Called(op) == \E i \in 1..Len(calls) : calls[i].op = op

GeneralAnswered == pc \in {"summary", "done"} /\ ~InvalidQuery(body)
                   /\ QueryTypeOf(analysis) = "general" /\ response.status # 500

\* C5: whatever subset of the three provider calls of handleGeneralQuery
\* throws, all three are made and the result has the sections github, jira and
\* documents: {error: message} for a provider that threw, its data otherwise.
C5_GeneralFaultIsolation ==
    GeneralAnswered =>
        /\ Called("githubService.getRepositories")
        /\ Called("jiraService.searchIssues")
        /\ Called("documentService.getAvailableFiles")
        /\ DOMAIN evidence.o = {"github", "jira", "documents"}
        /\ LET g == CallOf("githubService.getRepositories").res
               j == CallOf("jiraService.searchIssues").res
               d == CallOf("documentService.getAvailableFiles").res
           IN  /\ evidence.o["github"] = (IF g.threw THEN Obj([error |-> g.msg]) ELSE g.data)
               /\ evidence.o["jira"] = (IF j.threw THEN Obj([error |-> j.msg]) ELSE j.data)
               /\ evidence.o["documents"] = (IF d.threw THEN Obj([error |-> d.msg])
                                             ELSE Obj([available_files |-> d.data]))

C5_Witness ==
    /\ GeneralAnswered
    /\ pc = "summary"
    /\ evidence.o["jira"] = Obj([error |-> "JIRA not configured"])
    /\ evidence.o["github"].t = "array"
    /\ "available_files" \in DOMAIN evidence.o["documents"].o

ProviderOps == {"githubService", "jiraService", "documentService"}

\* the calls of provider adapters made for this request that threw
ThrownCalls == { i \in 1..Len(calls) :
                    /\ calls[i].res.threw
                    /\ \E p \in ProviderOps : StartsAt(calls[i].op, p, 1) }

\* C6: in the github, jira and document branches a failure thrown by a
\* provider adapter is not raised past the router: the evidence carries the
\* error message and the attempted parameters.
C6_ErrorEvidenceCarriesParameters ==
    (/\ pc \in {"summary", "done"}
     /\ ~InvalidQuery(body)
     /\ QueryTypeOf(analysis) \in {"github", "jira", "document"}
     /\ ThrownCalls # {})
        => /\ response.status # 500
           /\ evidence.t = "object"
           /\ {"error", "parameters"} \subseteq DOMAIN evidence.o
           /\ evidence.o["error"] = calls[Greatest(ThrownCalls)].res.msg
           /\ evidence.o["parameters"] = ParamsOf(analysis)

\* C7: the lower-cased query is tested against the source-control, then the
\* issue-tracker, then the document keywords, and the first family that
\* matches gives the queryType; a query matching none is general with
\* confidence 0.5 and no parameters.
C7_KeywordPrecedence ==
    pc = "classified" =>
        LET q == toLowerCase(body.s)
            gh == IncludesAny(q, GitHubTerms)
            ji == IncludesAny(q, JiraTerms)
            doc == IncludesAny(q, DocumentTerms)
        IN  /\ gh => analysis.queryType = "github"
            /\ (~gh /\ ji) => analysis.queryType = "jira"
            /\ (~gh /\ ~ji /\ doc) => analysis.queryType = "document"
            /\ (~gh /\ ~ji /\ ~doc) =>
                  /\ analysis.queryType = "general"
                  /\ analysis.confidence = 5
                  /\ analysis.parameters = EmptyObject

C7_Witness ==
    /\ pc = "classified"
    /\ body = Str("ticket merge csv ")
    /\ analysis.queryType = "github"

\* C8: a query holding a ticket key [A-Z]+-[0-9]+ is classified with
\* parameters.issueKey equal to that key, whichever queryType its keywords select.
C8_TicketKeyExtracted ==
    (pc = "classified" /\ issueMatch(body.s) # NoMatch)
        => /\ Has(analysis.parameters, "issueKey")
           /\ analysis.parameters["issueKey"] = issueMatch(body.s)

\* the reviews of a record in neither of the two counted states
OtherStates(reviews) ==
    Cardinality({ i \in 1..Len(reviews) :
                    reviews[i].state \notin {"APPROVED", "CHANGES_REQUESTED"} })

\* the records a GitHub adapter call returned
ReturnedRecords ==
    IF ghResult.res.threw THEN {}
    ELSE IF ghResult.op = "getPullRequests"
    THEN { ghResult.res.data.items[i] : i \in 1..Len(ghResult.res.data.items) }
    ELSE IF ghResult.op = "getPullRequest" THEN {ghResult.res.data.o}
    ELSE {}

\* C10: for every record getPullRequests or getPullRequest returns, degraded
\* or not, approvals + request_changes + (reviews in any other state) is the
\* length of the record's reviews.
C10_ReviewCountsAddUp ==
    \A rec \in ReturnedRecords :
        rec.approvals + rec.request_changes + OtherStates(rec.reviews) = Len(rec.reviews)

C10_Witness ==
    /\ ghResult.op = "getPullRequests"
    /\ \E rec \in ReturnedRecords :
          Len(rec.reviews) = 2 /\ rec.approvals = 1 /\ rec.request_changes = 0
    /\ \E rec \in ReturnedRecords :
          \E i \in 1..Len(prs) :
              prs[i].number = rec.number /\ Len(prs[i].reviews) > 0 /\ rec.reviews = <<>>

\* the records the aggregate call got from getPullRequests
ListedRecords == ghResult.list.data.items

\* the indices of S in increasing order
RECURSIVE InOrder(_)
InOrder(S) == IF S = {} THEN <<>> ELSE <<Least(S)>> \o InOrder(S \ {Least(S)})

MergedUnapproved(rec) == rec.merged = TRUE /\ rec.approvals = 0

\* C11: the prs list of getPRsMergedWithoutApproval holds, in list order,
\* exactly the closed records with merged = true and approvals = 0, and count
\* is its length.
C11_MergedWithoutApprovalExact ==
    (ghResult.op = "getPRsMergedWithoutApproval" /\ ~ghResult.res.threw) =>
        LET out == ghResult.res.data.o
            kept == InOrder({ i \in 1..Len(ListedRecords) : MergedUnapproved(ListedRecords[i]) })
        IN  /\ \A i \in 1..Len(ListedRecords) : ListedRecords[i].state = "closed"
            /\ out.count = Len(out.prs)
            /\ Len(out.prs) = Len(kept)
            /\ \A j \in 1..Len(kept) :
                  /\ out.prs[j].pr_id = ListedRecords[kept[j]].number
                  /\ out.prs[j].reviews = ListedRecords[kept[j]].reviews

C11_Witness ==
    /\ ghResult.op = "getPRsMergedWithoutApproval"
    /\ ~ghResult.res.threw
    /\ Len(ListedRecords) = 2
    /\ ListedRecords[1].merged /\ ListedRecords[1].approvals = 0
    /\ ListedRecords[2].merged /\ ListedRecords[2].approvals = 2
    /\ ghResult.res.data.o.count = 1
    /\ ghResult.res.data.o.prs[1].pr_id = ListedRecords[1].number

WaitingRecord(rec) == rec.created_min > DayMinutes /\ rec.reviews = <<>>

\* C12: getPRsWaitingForReview returns exactly the open records created more
\* than 24 hours ago whose reviews list is empty, each with waiting_time the
\* floored number of hours since creation followed by " hours".
C12_WaitingForReviewExact ==
    (ghResult.op = "getPRsWaitingForReview" /\ ~ghResult.res.threw) =>
        LET out == ghResult.res.data.items
            kept == InOrder({ i \in 1..Len(ListedRecords) : WaitingRecord(ListedRecords[i]) })
        IN  /\ \A i \in 1..Len(ListedRecords) : ListedRecords[i].state = "open"
            /\ Len(out) = Len(kept)
            /\ \A j \in 1..Len(kept) :
                  LET rec == ListedRecords[kept[j]]
                  IN  /\ out[j].pr_id = rec.number
                      /\ \E h \in 0..(rec.created_min \div MinutesPerHour) :
                            /\ h * MinutesPerHour <= rec.created_min
                            /\ rec.created_min < (h + 1) * MinutesPerHour
                            /\ out[j].waiting_time = ToString(h) \o " hours"

C12_Witness ==
    /\ ghResult.op = "getPRsWaitingForReview"
    /\ ~ghResult.res.threw
    /\ Len(prs) = 2
    /\ prs[1].state = "open" /\ prs[1].created_min = 1830 /\ prs[1].reviews = <<>>
    /\ prs[2].state = "open" /\ prs[2].created_min = 600 /\ prs[2].reviews = <<>>
    /\ Len(ghResult.res.data.items) = 1
    /\ ghResult.res.data.items[1].pr_id = 1
    /\ ghResult.res.data.items[1].waiting_time = "30 hours"

\* C13: when getAvailableFiles returns an empty list the document branch
\* answers with the guidance message and the upload suggestion, without an
\* error field, and calls neither analyzeDocument nor an export.
C13_EmptyStoreGuidance ==
    (/\ pc \in {"summary", "done"}
     /\ ~InvalidQuery(body)
     /\ QueryTypeOf(analysis) = "document"
     /\ Called("documentService.getAvailableFiles")
     /\ ~CallOf("documentService.getAvailableFiles").res.threw
     /\ CallOf("documentService.getAvailableFiles").res.data.items = <<>>)
        => /\ response.status # 500
           /\ evidence.t = "object"
           /\ DOMAIN evidence.o = {"message", "suggestion"}
           /\ evidence.o["message"] = "No documents available for analysis"
           /\ ~Called("documentService.analyzeDocument")
           /\ ~Called("documentService.exportToCSV")
           /\ ~Called("documentService.exportToExcel")

C13_Witness ==
    /\ pc = "summary"
    /\ body = Str("export csv ")
    /\ analysis.queryType = "document"
    /\ uploads = <<".gitkeep">>
    /\ CallOf("documentService.getAvailableFiles").res = Returned(Arr(<<>>))
    /\ "suggestion" \in DOMAIN evidence.o

\* C14: parsing the exported file gives back as many rows as the record list
\* has records, and the header set is the key set of the records.
C14_ExportRoundTrip ==
    (reparsed # Undefined /\ "parsed" \in DOMAIN reparsed) =>
        /\ reparsed.parsed.rowCount = Len(records)
        /\ { reparsed.parsed.headers[k] : k \in 1..Len(reparsed.parsed.headers) }
               = (IF Len(records) = 0 THEN {} ELSE DOMAIN records[1])

\* the calls of the GitHub adapter made for this request
GitHubCalls == { i \in 1..Len(calls) : StartsAt(calls[i].op, "githubService.", 1) }

GitHubRouted == pc \in {"summary", "done"} /\ ~InvalidQuery(body)
                /\ QueryTypeOf(analysis) = "github"

\* C15: a request routed to handleGitHubQuery invokes exactly one adapter
\* operation, and the intent text decides it before the parameters do: merged
\* without approval, then reviewed by (with a user), then waiting for review,
\* then last week, whether or not prNumber or repository is present.
C15_TextualTriggersFirst ==
    GitHubRouted =>
        LET q == toLowerCase(IntentText(analysis))
            params == ParamsOf(analysis)
            t1 == includes(q, "merged without approval") \/ includes(q, "no approval")
            t2 == includes(q, "reviewed by") /\ Has(analysis, "parameters")
                  /\ TruthyStr(params, "user")
            t3 == includes(q, "waiting for review") \/ includes(q, "24 hours")
            t4 == includes(q, "last 7 days") \/ includes(q, "last week")
            Invoked(op) == \A i \in GitHubCalls : calls[i].op = "githubService." \o op
        IN  /\ Cardinality(GitHubCalls) = 1
            /\ t1 => Invoked("getPRsMergedWithoutApproval")
            /\ (~t1 /\ t2) => Invoked("getPRsReviewedByUser")
            /\ (~t1 /\ ~t2 /\ t3) => Invoked("getPRsWaitingForReview")
            /\ (~t1 /\ ~t2 /\ ~t3 /\ t4) => Invoked("getPRsMergedLastWeek")

\* C16: when only prNumber is present and the default repository does not
\* answer, further repositories are tried, and the evidence is the first
\* success or an error saying the record was not found in accessible
\* repositories.
C16_RecordOnlyFallbackScan ==
    (/\ GitHubRouted
     /\ Called("githubService.getPullRequest")
     /\ ~TruthyStr(ParamsOf(analysis), "repository")
     /\ CallOf("githubService.getPullRequest").res.threw)
        => \/ "error" \notin DOMAIN evidence.o
           \/ includes(evidence.o["error"], "not found in accessible repositories")

\* the calls of the Jira adapter made for this request
JiraCalls == { i \in 1..Len(calls) : StartsAt(calls[i].op, "jiraService.", 1) }

\* C17: handleJiraQuery calls getIssue when parameters.issueKey is present,
\* also with a user; else searchAccessIssues when parameters.user is present;
\* else searchIssues with generateJQL(parameters), which is the conditions
\* joined by AND before the ordering and the ordering alone without parameters.
C17_JiraDispatchPrecedence ==
    (pc \in {"summary", "done"} /\ ~InvalidQuery(body) /\ QueryTypeOf(analysis) = "jira") =>
        LET params == ParamsOf(analysis)
            Present(key) == Has(analysis, "parameters") /\ TruthyStr(params, key)
            Invoked(op, arg) ==
                /\ Cardinality(JiraCalls) = 1
                /\ \A i \in JiraCalls : calls[i].op = "jiraService." \o op
                                          /\ calls[i].args = <<arg>>
        IN  /\ Present("issueKey") => Invoked("getIssue", params["issueKey"])
            /\ (~Present("issueKey") /\ Present("user"))
                  => Invoked("searchAccessIssues", params["user"])
            /\ (~Present("issueKey") /\ ~Present("user")) =>
                  \E jql \in {"ORDER BY updated DESC",
                               "project = \"OPS\" AND status = \"Done\" ORDER BY updated DESC"} :
                      /\ Invoked("searchIssues", jql)
                      /\ (\A k \in {"project", "status", "assignee", "text"} : ~Present(k))
                            => jql = "ORDER BY updated DESC"

Sources == {"github", "jira", "documents"}

\* an evidence of the five shapes: a record (single or aggregate), a record
\* list, an error result with its parameters, or a multi-source result
IsRecord(e) == e.t = "object" /\ "error" \notin DOMAIN e.o
IsRecordList(e) == e.t = "array"
IsErrorResult(e) == e.t = "object" /\ {"error", "parameters"} \subseteq DOMAIN e.o
IsErrorMarker(e) == e.t = "object" /\ "error" \in DOMAIN e.o
IsMultiSourceResult(e) ==
    /\ e.t = "object"
    /\ DOMAIN e.o # {}
    /\ DOMAIN e.o \subseteq Sources
    /\ \A k \in DOMAIN e.o :
          IsRecord(e.o[k]) \/ IsRecordList(e.o[k]) \/ IsErrorMarker(e.o[k])

\* C18: whatever the intent and the providers' outcomes, the evidence the
\* router produces is a single record, a record list, an aggregate result, a
\* multi-source result or an error result (message and parameters).
C18_EvidenceShape ==
    (pc \in {"summary", "done"} /\ ~InvalidQuery(body) /\ response.status # 500) =>
        \/ IsRecord(evidence)
        \/ IsRecordList(evidence)
        \/ IsErrorResult(evidence)
        \/ IsMultiSourceResult(evidence)

\* C19: a document query handled while another one is in flight returns the
\* evidence it returns when it runs alone on the uploads directory.
C19_RequestIsolation ==
    \A i \in DOMAIN tasks :
        tasks[i].pc = "done" =>
            tasks[i].evidence
                = handleDocumentQuery(tasks[i].analysis, aloneDir, "", "", "").evidence

\* C20: every example query listed under a category is classified by
\* fallbackAnalysis into the queryType of that category.
C20_ExamplesClassifiedAsListed ==
    pc = "classified" =>
        \A e \in ExampleQueries : e.query = body.s => analysis.queryType = e.queryType

\* C21: whichever reviews requests fail inside getPullRequests, a call whose
\* list request succeeds returns one record per listed pull request, in list
\* order; a record whose reviews request failed has no reviews and zero
\* counts, every other record has its own reviews and their counts.
C21_PartialEnrichmentFailure ==
    (ghResult.op = "getPullRequests" /\ ghResult.net.listError = "") =>
        LET listed == InOrder({ i \in 1..Len(prs) :
                                  ghResult.state = "all" \/ prs[i].state = ghResult.state })
            res == ghResult.res
        IN  /\ ~res.threw
            /\ Len(res.data.items) = Len(listed)
            /\ \A k \in 1..Len(listed) :
                  LET pr == prs[listed[k]]
                      rec == res.data.items[k]
                  IN  /\ rec.number = pr.number
                      /\ IF pr.number \in ghResult.net.reviewErrors
                         THEN rec.reviews = <<>> /\ rec.approvals = 0
                              /\ rec.request_changes = 0
                         ELSE /\ rec.reviews = MapReviews(pr.reviews)
                              /\ rec.approvals = CountState(pr.reviews, "APPROVED")
                              /\ rec.request_changes
                                     = CountState(pr.reviews, "CHANGES_REQUESTED")

C21_Witness ==
    /\ ghResult.op = "getPullRequests"
    /\ ghResult.net = [listError |-> "", reviewErrors |-> {1}]
    /\ Len(prs) = 2
    /\ Len(prs[1].reviews) = 1
    /\ Len(prs[2].reviews) = 2
    /\ Len(ghResult.res.data.items) = 2
    /\ ghResult.res.data.items[1].reviews = <<>>
    /\ ghResult.res.data.items[2].approvals = 1
    /\ ghResult.res.data.items[2].request_changes = 1

\* C22: a request routed to handleGitHubQuery whose intent matches no textual
\* trigger and whose parameters hold a repository and no prNumber fetches the
\* pull-request list of that repository: getPullRequests is called with the
\* owner and repo of the parameter.
C22_RepositoryOnlyListsThatRepository ==
    (/\ GitHubRouted
     /\ response.status # 500
     /\ Has(analysis, "intent") /\ Has(analysis, "parameters")
     /\ GitHubCall(analysis).op \in {"getPullRequest", "getPullRequests", "getRepositories"}
     /\ TruthyStr(analysis.parameters, "repository")
     /\ ~TruthyStr(analysis.parameters, "prNumber"))
        => \E i \in GitHubCalls :
              /\ calls[i].op = "githubService.getPullRequests"
              /\ calls[i].args = <<OwnerRepo(analysis.parameters["repository"])>>

\* the three provider calls of handleGeneralQuery
GeneralOps == {"githubService.getRepositories", "jiraService.searchIssues",
               "documentService.getAvailableFiles"}

\* handleGeneralQuery makes each call and waits for it in one statement, so a
\* call that is not yet in the log of this request has not been started
GeneralStarted(op) == Called(op)

\* C23: the three provider calls of handleGeneralQuery run concurrently: once
\* one of them has completed, all three have been started.
C23_GeneralCallsStartTogether ==
    (InRequest /\ ~InvalidQuery(body) /\ QueryTypeOf(analysis) = "general"
     /\ \E op \in GeneralOps : Called(op))
        => \A op \in GeneralOps : GeneralStarted(op)

\* the summary of the answered request was written by fallbackSummary
FallbackSummarized == pc = "done" /\ response.status = 200 /\ summary # ModelSummary

\* the summary opens with the cardinality n
FoundItems(n) == StartsAt(summary, "Found " \o ToString(n) \o " items matching", 1)

\* C24: fallbackSummary reports the cardinality of the evidence: 'Found N
\* items matching ...' for a record list of N records and for an aggregate
\* result whose count is N, and the field count for a single record.
C24_FallbackSummaryCardinality ==
    FallbackSummarized =>
        /\ evidence.t = "array" => FoundItems(Len(evidence.items))
        /\ (evidence.t = "object" /\ {"count", "prs"} \subseteq DOMAIN evidence.o)
              => FoundItems(evidence.o["count"])
        /\ (evidence.t = "object" /\ "number" \in DOMAIN evidence.o)
              => StartsAt(summary, "Retrieved evidence with "
                                   \o ToString(Cardinality(DOMAIN evidence.o))
                                   \o " data points", 1)

\* the position of the "}" that closes the "{" at position i of the model
\* text, 0 when there is none
RECURSIVE ClosingBrace(_, _, _)
ClosingBrace(text, i, depth) ==
    IF i > Len(text) THEN 0
    ELSE IF text[i] = "{" THEN ClosingBrace(text, i + 1, depth + 1)
    ELSE IF text[i] = "}" /\ depth = 1 THEN i
    ELSE IF text[i] = "}" THEN ClosingBrace(text, i + 1, depth - 1)
    ELSE ClosingBrace(text, i + 1, depth)

\* the first balanced {...} span of the model text, <<>> when there is none
FirstBalancedSpan(text) ==
    LET opens == Positions(text, "{")
    IN  IF opens = {} \/ ClosingBrace(text, Least(opens), 0) = 0 THEN <<>>
        ELSE SubSeq(text, Least(opens), ClosingBrace(text, Least(opens), 0))

\* the text the model answered to the prompt of analyzeQuery
AnalysisModelText == calls[2].res.data.items

\* C25: when the first balanced {...} span of the model's response is a valid
\* JSON object, analyzeQuery returns that object, whatever follows the span.
C25_FirstBalancedSpanParsed ==
    (/\ pc \in {"route", "summary", "done", "general_jira", "general_documents"}
     /\ ~InvalidQuery(body)
     /\ genAI
     /\ ~calls[2].res.threw
     /\ FirstBalancedSpan(AnalysisModelText) # <<>>
     /\ JSONparse(FirstBalancedSpan(AnalysisModelText)) # SyntaxError)
        => /\ usedModel
           /\ analysis = JSONparse(FirstBalancedSpan(AnalysisModelText))

\* the reviews of a fetched record made by the user, compared without case
ReviewsBy(rec, user) ==
    { i \in 1..Len(rec.reviews) : toLowerCase(rec.reviews[i].user) = toLowerCase(user) }

\* the review of the set S submitted last
LatestOf(rec, S) ==
    rec.reviews[CHOOSE i \in S :
                    \A j \in S : rec.reviews[j].submitted_at <= rec.reviews[i].submitted_at]

\* C26: getPRsReviewedByUser(reviewer) returns, in list order, exactly the
\* fetched pull requests with a review whose user is the reviewer up to case
\* (a longer or shorter login does not match), each with the decision and the
\* date of that user's latest review.
C26_ReviewedByUserExact ==
    (ghResult.op = "getPRsReviewedByUser" /\ ~ghResult.res.threw) =>
        LET out == ghResult.res.data.items
            kept == InOrder({ i \in 1..Len(ListedRecords) :
                                ReviewsBy(ListedRecords[i], ghResult.reviewer) # {} })
        IN  /\ Len(out) = Len(kept)
            /\ \A j \in 1..Len(kept) :
                  LET rec == ListedRecords[kept[j]]
                      latest == LatestOf(rec, ReviewsBy(rec, ghResult.reviewer))
                  IN  /\ out[j].pr_id = rec.number
                      /\ out[j].reviewer = ghResult.reviewer
                      /\ out[j].decision = latest.state
                      /\ out[j].date = latest.submitted_at

C26_Witness ==
    /\ ghResult.op = "getPRsReviewedByUser"
    /\ ghResult.reviewer = "BOB"
    /\ ~ghResult.res.threw
    /\ Len(ListedRecords) = 2
    /\ Len(ListedRecords[1].reviews) = 4
    /\ ListedRecords[2].reviews = MapReviews(<<Review("bobby", "APPROVED")>>)
    /\ ghResult.res.data.items
          = <<[pr_id |-> 1, reviewer |-> "BOB", decision |-> "APPROVED", date |-> 3]>>

\* C27: a github intent made by fallbackAnalysis has the constant intent text
\* and at most the parameters prNumber and repository, so handleGitHubQuery
\* makes one adapter call: getPullRequest when the query holds a PR number,
\* getRepositories otherwise, whatever else the query says.
C27_FallbackGitHubRouting ==
    (GitHubRouted /\ ~usedModel) =>
        /\ analysis.intent = "Query GitHub repository information"
        /\ DOMAIN analysis.parameters \subseteq {"prNumber", "repository"}
        /\ Cardinality(GitHubCalls) = 1
        /\ \A i \in GitHubCalls :
              calls[i].op = (IF prMatch(toLowerCase(body.s)) # NoMatch
                             THEN "githubService.getPullRequest"
                             ELSE "githubService.getRepositories")

C27_Witness ==
    /\ pc = "summary"
    /\ ~usedModel
    /\ body = Str("Why was PR #456 merged without approval?")
    /\ analysis.queryType = "github"
    /\ Len(calls) = 2
    /\ calls[2].op = "githubService.getPullRequest"
    /\ calls[2].args = <<DefaultRepository, "456">>

ExportFiles == {ExportName("evidence_export", "csv"), ExportName("evidence_export", "excel")}

\* the adapter calls the step made
StepCalls == SubSeq(calls', Len(calls) + 1, Len(calls'))

\* the step is one run of handleDocumentQuery
DocumentStep == pc = "route" /\ pc' = "summary" /\ QueryTypeOf(analysis) = "document"

\* C28: an export of a document query is written into the uploads directory
\* under its fixed name, once, and is then the newest file getAvailableFiles
\* lists; a document query that finds an export file newest in the directory
\* analyzes that export file.
C28_ExportBecomesNewestDocument ==
    [][DocumentStep =>
        /\ \A i \in 1..Len(StepCalls) :
              (/\ StepCalls[i].op \in {"documentService.exportToCSV",
                                        "documentService.exportToExcel"}
               /\ ~StepCalls[i].res.threw)
                 => LET name == StepCalls[i].res.data.o.filename
                        listed == getAvailableFiles(uploads', "").data.items
                    IN  /\ name \in ExportFiles
                        /\ Cardinality({ k \in 1..Len(uploads') : uploads'[k] = name }) = 1
                        /\ MostRecent(listed).filename = name
                        /\ Len(uploads') <= Len(uploads) + 1
        /\ (/\ Len(uploads) > 0
             /\ uploads[Len(uploads)] \in ExportFiles
             /\ ~StepCalls[1].res.threw)
               => /\ Len(StepCalls) >= 2
                  /\ StepCalls[2].op = "documentService.analyzeDocument"
                  /\ StepCalls[2].args = <<uploads[Len(uploads)]>>
    ]_vars

C28_Witness ==
    /\ pc = "summary"
    /\ QueryTypeOf(analysis) = "document"
    /\ uploads = <<"assets.csv", ExportName("evidence_export", "csv")>>
    /\ Called("documentService.analyzeDocument")
    /\ CallOf("documentService.analyzeDocument").args = <<ExportName("evidence_export", "csv")>>
    /\ ~CallOf("documentService.analyzeDocument").res.threw
    /\ ~Called("documentService.exportToCSV")

\* the request was classified into none of the four query types
Unrecognized == pc \in {"summary", "done"} /\ ~InvalidQuery(body)
                /\ QueryTypeOf(analysis) \notin {"github", "jira", "document", "general"}

\* C29: an Intent whose queryType is none of github, jira, document and
\* general comes from the model only; the handler then calls no provider
\* adapter, the evidence is {message: 'Query type not recognized', analysis},
\* a summary is generated and the answer is a success response.
C29_UnrecognizedQueryType ==
    Unrecognized =>
        /\ usedModel
        /\ \A i \in 1..Len(calls) :
              \A p \in ProviderOps : ~StartsAt(calls[i].op, p \o ".", 1)
        /\ evidence = Obj([message |-> "Query type not recognized", analysis |-> analysis])
        /\ pc = "done" =>
              /\ Called("aiService.generateSummary")
              /\ response.status = 200
              /\ response.json.evidence = evidence
              /\ response.json.summary = summary
              /\ summary # ""

C29_Witness ==
    /\ Unrecognized
    /\ pc = "done"
    /\ QueryTypeOf(analysis) = "weather"
    /\ response.status = 200
    /\ response.json.evidence.o["message"] = "Query type not recognized"

\* C30: in every state of the page, status SUCCESS comes with a result and no
\* error, status ERROR comes with an error, and onSubmit was never called
\* while loading or with an empty or blank query.
C30_FrontendStateConsistent ==
    app # Unmounted =>
        /\ app.status = "success" => (app.result # Null /\ app.error = Null)
        /\ app.status = "error" => app.error # Null
        /\ ~app.submitted.loading
        /\ trim(app.submitted.query) # ""

====
